---- MODULE Spec2Model ----
(***************************************************************************)
(* Downly: the download engine (start / cancel / worker thread /           *)
(* termination thread / child process), the time validator and the         *)
(* progress panel, as state machines.                                      *)
(*                                                                         *)
(* Strings are sequences of one-character strings, so that parsing is      *)
(* computed character by character as the code's regular expressions do.   *)
(***************************************************************************)
EXTENDS Integers, Sequences, FiniteSets, TLC

\* ------------------------------------------------------------------
\* Bounds of the model
\* ------------------------------------------------------------------

\* number of start_download calls that may create a worker thread
MaxDownloads == 2

\* longest digit field of a generated time string
MaxFieldLen == 2

\* largest percentage a child's output line carries
MaxPercent == 150

\* longest output line of the child, in tokens
MaxLineLen == 2

\* hours in the numbers of seconds that are formatted
MaxHours == 100

\* URLValidator instances
MaxValidators == 3

\* PresetManager instances
MaxManagers == 2

\* lines the child process writes to its output
MaxOutputLines == 2

\* runs of one character in the file names that are sanitized
MaxRuns == 3

\* worker threads created while start_download is tried with every class
\* of input (missing dependencies, invalid intervals)
MaxApiDownloads == 1

\* ------------------------------------------------------------------
\* Python values: None, False and int results of the time validator
\* ------------------------------------------------------------------

NoneV == [tag |-> "None", val |-> 0]

FalseV == [tag |-> "False", val |-> 0]

IntV(n) == [tag |-> "int", val |-> n]

\* ------------------------------------------------------------------
\* TimeValidator (utils/time_utils.py)
\* ------------------------------------------------------------------

Digits == {"0", "1", "2", "3", "4", "5", "6", "7", "8", "9"}

DigitVal(c) ==
  CASE c = "0" -> 0 [] c = "1" -> 1 [] c = "2" -> 2 [] c = "3" -> 3
    [] c = "4" -> 4 [] c = "5" -> 5 [] c = "6" -> 6 [] c = "7" -> 7
    [] c = "8" -> 8 [] c = "9" -> 9

\* int(s) for a string of digits
RECURSIVE IntOf(_)
IntOf(s) ==
  IF s = <<>> THEN 0
  ELSE 10 * IntOf(SubSeq(s, 1, Len(s) - 1)) + DigitVal(s[Len(s)])

Whitespace == {" ", "\n"}

RECURSIVE LStrip(_)
LStrip(s) ==
  IF s # <<>> /\ s[1] \in Whitespace THEN LStrip(Tail(s)) ELSE s

RECURSIVE RStrip(_)
RStrip(s) ==
  IF s # <<>> /\ s[Len(s)] \in Whitespace
  THEN RStrip(SubSeq(s, 1, Len(s) - 1))
  ELSE s

\* str.strip()
Strip(s) == RStrip(LStrip(s))

\* \d{lo,hi} over the whole of s
DigitRun(s, lo, hi) ==
  /\ Len(s) >= lo
  /\ Len(s) <= hi
  /\ \A i \in 1..Len(s) : s[i] \in Digits

\* the string "HH:MM:SS" of the entry widgets
Placeholder == <<"H", "H", ":", "M", "M", ":", "S", "S">>

MatchHMS_Never(t, h) == FALSE

\* ^(\d{1,2}):(\d{2}):(\d{2})$ , with h the length of the first group
MatchHMS(t, h) ==
  /\ Len(t) = h + 6
  /\ DigitRun(SubSeq(t, 1, h), 1, 2)
  /\ t[h + 1] = ":"
  /\ DigitRun(SubSeq(t, h + 2, h + 3), 2, 2)
  /\ t[h + 4] = ":"
  /\ DigitRun(SubSeq(t, h + 5, h + 6), 2, 2)

\* ^(\d{1,2}):(\d{2})$ , with m the length of the first group
MatchMS(t, m) ==
  /\ Len(t) = m + 3
  /\ DigitRun(SubSeq(t, 1, m), 1, 2)
  /\ t[m + 1] = ":"
  /\ DigitRun(SubSeq(t, m + 2, m + 3), 2, 2)

\* ^(\d+)$
MatchS(t) == DigitRun(t, 1, Len(t))

\* minutes >= 60 or seconds >= 60 (time_utils.py line 49)
HMSOutOfRange_NoMinuteCheck(minutes, seconds) == seconds >= 60

HMSOutOfRange(minutes, seconds) == minutes >= 60 \/ seconds >= 60

\* seconds >= 60 (time_utils.py line 55)
MSOutOfRange(seconds) == seconds >= 60

validate_time_format(time_str) ==
  IF time_str = <<>> \/ Strip(time_str) = <<>> \/ Strip(time_str) = Placeholder
  THEN NoneV
  ELSE
    LET t == Strip(time_str) IN
    IF \E h \in 1..2 : MatchHMS(t, h)
    THEN
      LET h == CHOOSE x \in 1..2 : MatchHMS(t, x)
          hours == IntOf(SubSeq(t, 1, h))
          minutes == IntOf(SubSeq(t, h + 2, h + 3))
          seconds == IntOf(SubSeq(t, h + 5, h + 6))
      IN IF HMSOutOfRange(minutes, seconds)
         THEN FalseV
         ELSE IntV(hours * 3600 + minutes * 60 + seconds)
    ELSE IF \E m \in 1..2 : MatchMS(t, m)
    THEN
      LET m == CHOOSE x \in 1..2 : MatchMS(t, x)
          minutes == IntOf(SubSeq(t, 1, m))
          seconds == IntOf(SubSeq(t, m + 2, m + 3))
      IN IF MSOutOfRange(seconds)
         THEN FalseV
         ELSE IntV(minutes * 60 + seconds)
    ELSE IF MatchS(t)
    THEN IntV(IntOf(t))
    ELSE FalseV

\* the digit of a value below 10
DigitChar(d) == CHOOSE c \in Digits : DigitVal(c) = d

\* str(n) for n >= 0
RECURSIVE Decimal(_)
Decimal(n) ==
  IF n < 10 THEN <<DigitChar(n)>>
  ELSE Decimal(n \div 10) \o <<DigitChar(n % 10)>>

Pad2_NoPadding(n) == Decimal(n)

\* f"{n:02d}": at least two digits, padded with a zero
Pad2(n) == IF n < 10 THEN <<"0">> \o Decimal(n) ELSE Decimal(n)

\* TimeValidator.format_seconds_to_time (lines 63-76)
format_seconds_to_time(seconds) ==
  LET hours == seconds \div 3600
      remainder == seconds % 3600
      minutes == remainder \div 60
      secs == remainder % 60
  IN Pad2(hours) \o <<":">> \o Pad2(minutes) \o <<":">> \o Pad2(secs)

\* error messages of validate_time_interval
ErrStartFormat == "Invalid start time format"

ErrEndFormat == "Invalid end time format"

ErrEndBeforeStart == "End time must be after start time"

NoError == "None"

\* what validate_time_interval returns: (start_seconds, end_seconds,
\* error_message), or the TypeError of comparing None with an int
IntervalResult(s, e, err) ==
  [start |-> s, end |-> e, error |-> err, raised |-> FALSE]

IntervalTypeError ==
  [start |-> NoneV, end |-> NoneV, error |-> NoError, raised |-> TRUE]

validate_time_interval(start_time, end_time) ==
  LET checkStart ==
        start_time # <<>> /\ start_time # Placeholder
          /\ start_time # <<"0", "0", ":", "0", "0", ":", "0", "0">>
      start_seconds ==
        IF checkStart THEN validate_time_format(start_time) ELSE NoneV
      checkEnd == end_time # <<>> /\ end_time # Placeholder
      end_seconds ==
        IF checkEnd THEN validate_time_format(end_time) ELSE NoneV
  IN
  IF checkStart /\ start_seconds = FalseV
  THEN IntervalResult(NoneV, NoneV, ErrStartFormat)
  ELSE IF checkEnd /\ end_seconds = FalseV
  THEN IntervalResult(NoneV, NoneV, ErrEndFormat)
  ELSE IF checkEnd /\ start_seconds # NoneV
  THEN
    \* end_seconds <= start_seconds: None <= int raises TypeError
    IF end_seconds = NoneV THEN IntervalTypeError
    ELSE IF end_seconds.val <= start_seconds.val
    THEN IntervalResult(NoneV, NoneV, ErrEndBeforeStart)
    ELSE IntervalResult(start_seconds, end_seconds, NoError)
  ELSE IntervalResult(start_seconds, end_seconds, NoError)

\* ------------------------------------------------------------------
\* State
\* ------------------------------------------------------------------

VARIABLES
  \* DownloadEngine fields (download_engine.py lines 51-53); a thread or a
  \* process is named by the number of the start_download call that
  \* created it, 0 is None
  is_downloading, download_process, download_thread,
  \* worker threads: position in _download_worker_with_fallback /
  \* _execute_download, and the process a worker blocks on in wait()
  wpc, waitOn,
  \* child processes (one Popen per worker): the life cycle, in which
  \* "terminated" and "killed" are a process that still runs after
  \* terminate() or kill() was called on it, and the return code
  pstate, returncode,
  \* termination threads (one per effective cancel_download): position in
  \* terminate_process and the iteration of its polling loop
  tpc, tpolls,
  \* observations: the terminal callbacks each worker invoked, and the
  \* outcome of the last engine call
  cbs, lastCall,
  \* per download: settings.format, the formats of the commands its worker
  \* has built, and the status texts its worker has reported
  settings_format, commands, statuses,
  \* TimeValidator under test: the input string and the result
  time_in, time_out,
  \* the result formatted by format_seconds_to_time, and that string
  \* validated again
  time_fmt, time_back,
  \* validate_time_interval under test: the two strings and the result
  iv_start, iv_end, iv_out,
  \* DownlyApplication.is_downloading, the ProgressPanel fields, and the
  \* percentage the last progress event carried
  app_is_downloading, progress_value, panel_is_downloading,
  is_mp3_finishing, progress_label, raw_percent,
  \* the self.after(...) timers a cancel click leaves pending
  cancel_timer,
  \* URLValidator: the list objects that hold patterns (list 0 is the
  \* module's YOUTUBE_PATTERNS, list i the list handed to the constructor of
  \* validator i), the list each validator's self.patterns refers to, and
  \* the validators on which add_pattern or remove_pattern was called
  pattern_lists, validator_list, patched,
  \* validate_url_input under test: the input, the patterns of the
  \* validator, and the result
  url_in, url_patterns, url_out,
  \* PresetManager: the inner dictionaries (quality -> configuration) by
  \* owner and format type, owner 0 being the module's PRESETS, and for
  \* each manager its self.presets (format type -> owner of the inner
  \* dictionary, -1 where the key is absent)
  preset_inner, managers,
  \* the message boxes the application has shown
  messagebox,
  \* _process_download_line under test: the line, whether a time section
  \* is set, and the callbacks invoked
  line_in, line_timed, line_out,
  \* _build_command under test: the settings with the seconds of the time
  \* section, and the command built
  build_in, build_out,
  \* sanitize_filename under test: the name and the result
  name_in, name_out,
  \* download_engine.py lines 497-557, one download that is not cancelled:
  \* Popen.returncode of the child; the lines in its stdout pipe; every
  \* line it has written; output_queue; the position of read_output and
  \* of the worker; the lines passed to _process_download_line; the
  \* terminal callback invoked
  child_returncode, stdout_pipe, written, output_queue, reader_pc, loop_pc,
  classified, terminal,
  \* the same download when cancel_download is called: is_downloading as
  \* the download sees it; the position of the terminate_process thread;
  \* whether terminate() or kill() was called on the child; the number of
  \* lines classified when cancel_download cleared the flag (-1 before)
  out_is_downloading, out_tpc, child_signal, cancel_mark

attemptVars == <<settings_format, commands, statuses>>

engineVars ==
  <<is_downloading, download_process, download_thread, wpc, waitOn,
    pstate, returncode, tpc, tpolls, cbs, lastCall, attemptVars>>

ivVars == <<iv_start, iv_end, iv_out>>

timeVars == <<time_in, time_out, time_fmt, time_back, ivVars>>

panelVars ==
  <<app_is_downloading, progress_value, panel_is_downloading,
    is_mp3_finishing, progress_label, raw_percent, cancel_timer,
    messagebox>>

urlVars == <<pattern_lists, validator_list, patched>>

urlCheckVars == <<url_in, url_patterns, url_out>>

presetVars == <<preset_inner, managers>>

lineVars == <<line_in, line_timed, line_out>>

buildVars == <<build_in, build_out>>

nameVars == <<name_in, name_out>>

utilVars == <<lineVars, buildVars, nameVars>>

coreVars == <<urlVars, urlCheckVars, presetVars, utilVars>>

\* one download's child, its stdout pipe, the reader thread and the loop
\* of the worker that classifies the lines
cancelVars == <<out_is_downloading, out_tpc, child_signal, cancel_mark>>

outputVars ==
  <<child_returncode, stdout_pipe, written, output_queue, reader_pc,
    loop_pc, classified, terminal, cancelVars>>

vars == <<engineVars, timeVars, panelVars, coreVars, outputVars>>

Downloads == 1..MaxDownloads

\* what Popen.returncode / poll() give for a process that has exited
ExitCodes == {0, 1}

\* range(10) in terminate_process
GracePolls == 10

\* a dependency path that could not be resolved
NoPath == "None"

\* (ffmpeg_path, ytdlp_path) as the dependency manager resolves them
DepPairs == { <<"exe", "exe">>, <<NoPath, "exe">>, <<"exe", NoPath>> }

\* strings of the settings form handed to start_download
EngineIntervals ==
  { << <<>>, <<>> >>,                          \* no interval
    << <<"5">>, <<"6">> >>,                    \* 5 s to 6 s
    << <<"6">>, <<"5">> >>,                    \* end before start
    << <<"5">>, <<"5">> >>,                    \* end equal to start
    << <<"5">>, <<" ">> >>,                    \* blank end after a start
    << <<"0", ":", "6", "5">>, <<>> >>,        \* malformed start
    << <<>>, <<"0", ":", "6", "5">> >> }       \* malformed end

\* validate_time_interval on the settings of EngineIntervals, computed once
IntervalOf ==
  [iv \in EngineIntervals |-> validate_time_interval(iv[1], iv[2])]

ErrDeps ==
  "Required dependencies not found. Please restart the application."

ErrReturnCode == "Download failed with return code"

ErrNotFound == "yt-dlp executable not found"

\* a terminal callback: on_success(), or on_error(msg) with the return
\* code the message carries
OnSuccess == [kind |-> "on_success", msg |-> NoError, code |-> NoneV]

OnError(msg, code) == [kind |-> "on_error", msg |-> msg, code |-> code]

\* what was observed of the last start_download / cancel_download call:
\* whether is_downloading was set when it was made, whether both
\* dependency paths were resolved, the error validate_time_interval gives
\* for its start and end time, the value it returned, the message it
\* invoked on_error with, and whether it changed any field, thread or
\* process of the engine
NoCall ==
  [op |-> "none", busy |-> FALSE, deps |-> TRUE, interval |-> NoError,
   ret |-> "None", err |-> NoError, changed |-> FALSE]

\* Popen.poll() is None
Running(p) == pstate[p] \in {"running", "terminated", "killed"}

\* Popen.terminate() on a process that runs: a process that was killed
\* stays killed
Terminate(st) == IF st = "running" THEN "terminated" ELSE st

\* the formats of the format dropdown (settings_panel.py line 123)
Formats == {"mp4", "webm", "mp3", "m4a"}

\* the engine after construction, before any call
EngineIdle ==
  /\ is_downloading = FALSE
  /\ download_process = 0
  /\ download_thread = 0
  /\ wpc = [d \in Downloads |-> "none"]
  /\ waitOn = [d \in Downloads |-> 0]
  /\ pstate = [d \in Downloads |-> "none"]
  /\ returncode = [d \in Downloads |-> NoneV]
  /\ tpc = [d \in Downloads |-> "none"]
  /\ tpolls = [d \in Downloads |-> 0]
  /\ cbs = [d \in Downloads |-> <<>>]
  /\ lastCall = NoCall
  /\ commands = [d \in Downloads |-> <<>>]
  /\ statuses = [d \in Downloads |-> <<>>]

\* every download asks for mp4
EngineInit ==
  /\ EngineIdle
  /\ settings_format = [d \in Downloads |-> "mp4"]

\* no result yet
Pending == [tag |-> "pending", val |-> 0]

\* no interval is being validated
IntervalIdle ==
  /\ iv_start = <<>>
  /\ iv_end = <<>>
  /\ iv_out = Pending

TimeIdle ==
  /\ time_in = <<>>
  /\ time_out = Pending
  /\ time_fmt = <<>>
  /\ time_back = Pending
  /\ IntervalIdle

\* a label of the progress panel: a fixed text, or "Downloading... p%"
Label(text) == [text |-> text, pct |-> 0]

PanelInit ==
  /\ app_is_downloading = FALSE
  /\ progress_value = 0
  /\ panel_is_downloading = FALSE
  /\ is_mp3_finishing = FALSE
  /\ progress_label = Label("Ready to download")
  /\ raw_percent = NoneV
  /\ cancel_timer = "none"
  /\ messagebox = {}

\* no child has been spawned
OutputIdle ==
  /\ child_returncode = NoneV
  /\ stdout_pipe = <<>>
  /\ written = <<>>
  /\ output_queue = <<>>
  /\ reader_pc = "none"
  /\ loop_pc = "none"
  /\ classified = <<>>
  /\ terminal = "none"
  /\ out_is_downloading = TRUE
  /\ out_tpc = "none"
  /\ child_signal = "none"
  /\ cancel_mark = -1

\* ------------------------------------------------------------------
\* PresetManager (core/preset_manager.py) and PRESETS (config.py)
\* ------------------------------------------------------------------

Preset(format, video_quality, audio_quality) ==
  [format |-> format, video_quality |-> video_quality,
   audio_quality |-> audio_quality]

\* None: no such preset
NoPreset == Preset("None", "None", "None")

FormatTypes == {"Video", "Audio", "Other"}

Qualities == {"High", "Standard", "Low", "Ultra"}

\* config.py lines 31-42
PRESETS ==
  [f \in FormatTypes |-> [q \in Qualities |->
     CASE f = "Video" /\ q = "High" ->
            Preset("mp4", "Highest Video Quality", "Highest Audio Quality")
       [] f = "Video" /\ q = "Standard" -> Preset("mp4", "720p", "192kbps")
       [] f = "Video" /\ q = "Low" -> Preset("mp4", "240p", "64kbps")
       [] f = "Audio" /\ q = "High" ->
            Preset("mp3", "---", "Highest Audio Quality")
       [] f = "Audio" /\ q = "Standard" -> Preset("mp3", "---", "192kbps")
       [] f = "Audio" /\ q = "Low" -> Preset("mp3", "---", "64kbps")
       [] OTHER -> NoPreset]]

\* a configuration a caller adds
CustomPreset == Preset("webm", "1080p", "128kbps")

Managers == 1..MaxManagers

\* an empty dictionary
EmptyDict == [q \in Qualities |-> NoPreset]

\* the keys of PRESETS: its inner dictionaries are owned by the module
ModuleKeys == [f \in FormatTypes |-> IF f \in {"Video", "Audio"} THEN 0 ELSE -1]

\* a manager that is not constructed
NoManager == [constructed |-> FALSE, presets |-> ModuleKeys, fresh |-> FALSE]

PresetIdle ==
  /\ preset_inner = [o \in 0..MaxManagers |-> [f \in FormatTypes |->
                       IF o = 0 THEN PRESETS[f] ELSE EmptyDict]]
  /\ managers = [m \in Managers |-> NoManager]

\* PRESETS.copy() (lines 21, 91): a new outer dictionary with the same
\* inner dictionaries
CopyOfPresets(m) == ModuleKeys

\* PresetManager.__init__ (lines 19-21)
NewPresetManager(m) ==
  /\ ~managers[m].constructed
  /\ managers' = [managers EXCEPT ![m] =
       [constructed |-> TRUE, presets |-> CopyOfPresets(m), fresh |-> TRUE]]
  /\ UNCHANGED <<preset_inner, urlVars, urlCheckVars>>
  /\ UNCHANGED <<engineVars, outputVars, utilVars, timeVars, panelVars>>

\* PresetManager.get_preset (lines 23-34)
get_preset(m, format_type, quality) ==
  IF format_type \notin FormatTypes \/ quality \notin Qualities
  THEN NoPreset
  ELSE IF managers[m].presets[format_type] = -1
  THEN NoPreset
  ELSE preset_inner[managers[m].presets[format_type]][format_type][quality]

\* PresetManager.add_preset (lines 57-68)
AddPreset(m, format_type, quality, config) ==
  LET absent == managers[m].presets[format_type] = -1
      owner == IF absent THEN m ELSE managers[m].presets[format_type]
      dict == IF absent THEN EmptyDict ELSE preset_inner[owner][format_type]
  IN
  /\ managers[m].constructed
  /\ managers' = [managers EXCEPT ![m].presets[format_type] = owner,
                                  ![m].fresh = FALSE]
  /\ preset_inner' = [preset_inner EXCEPT ![owner][format_type] =
                        [dict EXCEPT ![quality] = config]]
  /\ UNCHANGED <<urlVars, urlCheckVars>>
  /\ UNCHANGED <<engineVars, outputVars, utilVars, timeVars, panelVars>>

\* PresetManager.remove_preset (lines 70-87)
RemovePreset(m, format_type, quality) ==
  LET owner == managers[m].presets[format_type]
      found == owner # -1 /\ preset_inner[owner][format_type][quality] # NoPreset
      dict == [preset_inner[owner][format_type] EXCEPT ![quality] = NoPreset]
  IN
  /\ managers[m].constructed
  /\ IF found
     THEN /\ preset_inner' = [preset_inner EXCEPT ![owner][format_type] = dict]
          /\ managers' = [managers EXCEPT
               ![m].presets[format_type] = IF dict = EmptyDict THEN -1 ELSE owner,
               ![m].fresh = FALSE]
     ELSE /\ managers' = [managers EXCEPT ![m].fresh = FALSE]
          /\ UNCHANGED preset_inner
  /\ UNCHANGED <<urlVars, urlCheckVars>>
  /\ UNCHANGED <<engineVars, outputVars, utilVars, timeVars, panelVars>>

\* PresetManager.reset_to_defaults (lines 89-91)
ResetToDefaults(m) ==
  /\ managers[m].constructed
  /\ managers' = [managers EXCEPT ![m].presets = CopyOfPresets(m),
                                  ![m].fresh = TRUE]
  /\ UNCHANGED <<preset_inner, urlVars, urlCheckVars>>
  /\ UNCHANGED <<engineVars, outputVars, utilVars, timeVars, panelVars>>

\* the (format type, quality) pairs handed to add_preset
AddedPresets == {<<"Video", "High">>, <<"Other", "Ultra">>}

\* the pairs handed to remove_preset
RemovedPresets ==
  {<<"Video", "High">>, <<"Video", "Standard">>, <<"Video", "Low">>,
   <<"Other", "Ultra">>}

\* ------------------------------------------------------------------
\* URLValidator (core/url_validator.py) and YOUTUBE_PATTERNS (config.py)
\* ------------------------------------------------------------------

\* A pattern (?:https?://)?(?:sub)?host path [\w-]+ of config.py: the
\* optional subdomain ("" where the pattern has none), the host and the
\* path before the identifier
UrlPattern(sub, host, path) == [sub |-> sub, host |-> host, path |-> path]

\* config.py lines 21-28
YOUTUBE_PATTERNS ==
  << UrlPattern("www.", "youtube.com", "/watch?v="),
     UrlPattern("www.", "youtube.com", "/playlist?list="),
     UrlPattern("", "youtu.be", "/"),
     UrlPattern("www.", "youtube.com", "/shorts/"),
     UrlPattern("www.", "youtube.com", "/live/"),
     UrlPattern("m.", "youtube.com", "/watch?v=") >>

\* a pattern a caller adds
MusicPattern == UrlPattern("", "music.youtube.com", "/watch?v=")

\* A URL is a sequence of pieces: scheme, subdomain, host, path,
\* identifier, rest. re.IGNORECASE: the pieces compare by their lower case.
Lower(piece) ==
  CASE piece = "HTTPS://" -> "https://"
    [] piece = "WWW." -> "www."
    [] piece = "YouTube.com" -> "youtube.com"
    [] OTHER -> piece

\* pieces that [\w-]+ matches
Identifiers == {"dQw4w9WgXcQ", "a-b_1"}

\* the piece at position i, "" beyond the end
PieceAt(u, i) == IF i <= Len(u) THEN Lower(u[i]) ELSE ""

\* re.match(pattern, u, re.IGNORECASE): the pattern matches a prefix of u
MatchUrl(pattern, u) ==
  LET i1 == IF PieceAt(u, 1) \in {"http://", "https://"} THEN 2 ELSE 1
      i2 == IF pattern.sub # "" /\ PieceAt(u, i1) = pattern.sub
            THEN i1 + 1 ELSE i1
  IN /\ PieceAt(u, i2) = pattern.host
     /\ PieceAt(u, i2 + 1) = pattern.path
     /\ i2 + 2 <= Len(u)
     /\ u[i2 + 2] \in Identifiers

\* str.strip() on a URL: blanks are pieces of their own
RECURSIVE StripUrl(_)
StripUrl(u) ==
  IF u # <<>> /\ u[1] = " " THEN StripUrl(Tail(u))
  ELSE IF u # <<>> /\ u[Len(u)] = " " THEN StripUrl(SubSeq(u, 1, Len(u) - 1))
  ELSE u

\* values handed in as url: None, a number, or a string of pieces
NoUrl == [tag |-> "None", str |-> <<>>]

NumberUrl == [tag |-> "int", str |-> <<>>]

StrUrl(u) == [tag |-> "str", str |-> u]

\* URLValidator.is_valid_youtube_url (lines 30-46) of a validator whose
\* self.patterns holds the patterns
is_valid_youtube_url_Untrimmed(patterns, url) ==
  /\ url.tag = "str"
  /\ StripUrl(url.str) # <<>>
  /\ \E k \in 1..Len(patterns) : MatchUrl(patterns[k], url.str)

is_valid_youtube_url(patterns, url) ==
  /\ url.tag = "str"
  /\ url.str # <<>>
  /\ StripUrl(url.str) # <<>>
  /\ \E k \in 1..Len(patterns) : MatchUrl(patterns[k], StripUrl(url.str))

\* the text of the URL entry while it is empty
UrlPlaceholder == <<"Paste YouTube link here...">>

ErrNoUrl == "Please enter a YouTube URL before downloading."

ErrBadUrl == "Please enter a valid YouTube URL."

\* what validate_url_input returns: (is_valid, error_message), or the
\* AttributeError of calling strip() on a number
UrlResult(ok, msg) == [raised |-> FALSE, ok |-> ok, msg |-> msg]

UrlAttributeError == [raised |-> TRUE, ok |-> FALSE, msg |-> ""]

\* URLValidator.validate_url_input (lines 48-72)
validate_url_input(patterns, url) ==
  IF url.tag = "None" \/ (url.tag = "str" /\ url.str = <<>>)
  THEN UrlResult(FALSE, ErrNoUrl)
  ELSE IF url.tag # "str"
  THEN UrlAttributeError
  ELSE IF StripUrl(url.str) = UrlPlaceholder
  THEN UrlResult(FALSE, ErrNoUrl)
  ELSE IF ~is_valid_youtube_url(patterns, url)
  THEN UrlResult(FALSE, ErrBadUrl)
  ELSE UrlResult(TRUE, "")

\* validators that are constructed
Validators == 1..MaxValidators

\* the lists a caller hands to the constructor: None, an empty list, a
\* list of its own
NoList == [tag |-> "None", list |-> <<>>]

ListArg(list) == [tag |-> "list", list |-> list]

ConstructorLists == {NoList, ListArg(<<>>), ListArg(<<MusicPattern>>)}

\* patterns handed to add_pattern and remove_pattern
PatternArgs == {YOUTUBE_PATTERNS[1], MusicPattern}

\* no validator is constructed, no URL is being validated
UrlIdle ==
  /\ pattern_lists = [r \in 0..MaxValidators |->
                        IF r = 0 THEN YOUTUBE_PATTERNS ELSE <<>>]
  /\ validator_list = [v \in Validators |-> -1]
  /\ patched = {}

\* no result yet
NoUrlOutcome == [done |-> FALSE, accepted |-> FALSE, result |-> UrlResult(FALSE, "")]

UrlCheckIdle ==
  /\ url_in = NoUrl
  /\ url_patterns = <<>>
  /\ url_out = NoUrlOutcome

\* ------------------------------------------------------------------
\* FilenameUtils.sanitize_filename (utils/time_utils.py lines 118-152)
\* ------------------------------------------------------------------

\* A file name is a sequence of runs: the character c repeated n >= 1
\* times. The string is the runs one after the other. The characters
\* outside ASCII are written by their names.
Run(c, n) == [c |-> c, n |-> n]

\* line 130
InvalidChars == {"<", ">", ":", "\"", "/", "\\", "|", "?", "*"}

\* the characters str.split() and str.strip() take for whitespace
NameSpaces == {" ", "\t", "\n"}

\* lines 149-150: the longest name kept
MaxNameLength == 200

\* len(name)
RECURSIVE NameLen(_)
NameLen(name) ==
  IF name = <<>> THEN 0 ELSE name[1].n + NameLen(Tail(name))

\* lines 131-132: translate() deletes the invalid characters
RemoveInvalid(name) == SelectSeq(name, LAMBDA r : r.c \notin InvalidChars)

\* lines 135-138: the four replace() calls
ReplaceRun(r) ==
  IF r.c \in {"en dash", "em dash"} THEN Run("-", r.n)
  ELSE IF r.c = "\"" THEN Run("'", r.n)
  ELSE IF r.c = "ellipsis" THEN Run(".", 3 * r.n)
  ELSE r

ReplaceChars(name) == [i \in 1..Len(name) |-> ReplaceRun(name[i])]

RECURSIVE LStripName(_)
LStripName(name) ==
  IF name # <<>> /\ name[1].c \in NameSpaces THEN LStripName(Tail(name))
  ELSE name

RECURSIVE RStripName(_)
RStripName(name) ==
  IF name # <<>> /\ name[Len(name)].c \in NameSpaces
  THEN RStripName(SubSeq(name, 1, Len(name) - 1))
  ELSE name

\* str.strip()
StripName(name) == RStripName(LStripName(name))

\* line 141, ' '.join(name.split()): the words with one space between them
RECURSIVE JoinSplit(_)
JoinSplit(name) ==
  LET rest == LStripName(name) IN
  IF rest = <<>> THEN <<>>
  ELSE IF name[1].c \in NameSpaces
  THEN <<Run(" ", 1)>> \o JoinSplit(rest)
  ELSE <<name[1]>> \o JoinSplit(Tail(name))

\* name[:k]
RECURSIVE Take(_, _)
Take(name, k) ==
  IF name = <<>> \/ k = 0 THEN <<>>
  ELSE IF name[1].n <= k
  THEN <<name[1]>> \o Take(Tail(name), k - name[1].n)
  ELSE <<Run(name[1].c, k)>>

VideoName ==
  <<Run("v", 1), Run("i", 1), Run("d", 1), Run("e", 1), Run("o", 1)>>

\* lines 149-150: a name that is too long is cut and stripped
LimitLength_NoStrip(name) ==
  IF NameLen(name) > MaxNameLength THEN Take(name, MaxNameLength) ELSE name

LimitLength(name) ==
  IF NameLen(name) > MaxNameLength
  THEN StripName(Take(name, MaxNameLength))
  ELSE name

sanitize_filename(filename) ==
  LET clean_name ==
        StripName(JoinSplit(LStripName(ReplaceChars(RemoveInvalid(filename)))))
  IN LimitLength(IF clean_name = <<>> THEN VideoName ELSE clean_name)

\* sanitize_filename applied to generated names
NameChars == {"a", " ", "<", "ellipsis", "en dash"}

RunLengths == {1, MaxNameLength - 1, MaxNameLength}

NameRuns == {Run(c, n) : c \in NameChars, n \in RunLengths}

Names == UNION {[1..k -> NameRuns] : k \in 0..MaxRuns}

NoName == [done |-> FALSE, name |-> <<>>]

NameIdle ==
  /\ name_in = <<>>
  /\ name_out = NoName

NameInit ==
  /\ name_in \in Names
  /\ name_out = NoName

SanitizeFilename ==
  /\ ~name_out.done
  /\ name_out' = [done |-> TRUE, name |-> sanitize_filename(name_in)]
  /\ UNCHANGED <<name_in, lineVars, buildVars>>
  /\ UNCHANGED <<urlVars, urlCheckVars, presetVars>>
  /\ UNCHANGED <<engineVars, outputVars, timeVars, panelVars>>

NameNext == SanitizeFilename

\* ------------------------------------------------------------------
\* DownloadEngine._build_command (lines 238-330) and the functions that
\* add options to it (lines 353-480)
\* ------------------------------------------------------------------

\* An element of the command is a string, written as a sequence of pieces:
\* single characters where the code computes them, whole texts elsewhere.
Arg(text) == <<text>>

\* the characters of a name given as runs
RECURSIVE Expand(_)
Expand(name) ==
  IF name = <<>> THEN <<>>
  ELSE [i \in 1..name[1].n |-> name[1].c] \o Expand(Tail(name))

\* AppConfig (config.py lines 85-92)
DOWNLOAD_RETRIES == 3

FRAGMENT_RETRIES == 3

RETRY_SLEEP == 2

SOCKET_TIMEOUT == 30

SLEEP_INTERVAL == 1

MAX_SLEEP_INTERVAL == 3

CONCURRENT_FRAGMENTS == 4

BUFFER_SIZE == "16K"

\* AUDIO_QUALITY_MAP.get(audio_quality, "0") (config.py lines 12-18)
AudioQualityValue(audio_quality) ==
  IF audio_quality = "256kbps" THEN "2"
  ELSE IF audio_quality = "192kbps" THEN "5"
  ELSE IF audio_quality = "128kbps" THEN "7"
  ELSE IF audio_quality = "64kbps" THEN "9"
  ELSE "0"

HighestVideo == <<"Highest Video Quality">>

HighestAudio == "Highest Audio Quality"

DownloadSettings(format, video_quality, audio_quality, download_location,
                 custom_filename, download_metadata, download_subtitles) ==
  [format |-> format, video_quality |-> video_quality,
   audio_quality |-> audio_quality, download_location |-> download_location,
   custom_filename |-> custom_filename,
   download_metadata |-> download_metadata,
   download_subtitles |-> download_subtitles, url |-> <<"URL">>]

\* lines 254-290: the options every command starts with
BaseCommand(settings, ffmpeg_path, ytdlp_path) ==
  << Arg(ytdlp_path),
     Arg("-P"),
     IF settings.download_location # <<>> THEN settings.download_location
     ELSE <<"~", "/", "Downloads">>,
     Arg("--ffmpeg-location"), Arg(ffmpeg_path),
     Arg("--progress"), Arg("--no-part"), Arg("--no-overwrites"),
     Arg("--retries"), Decimal(DOWNLOAD_RETRIES),
     Arg("--fragment-retries"), Decimal(FRAGMENT_RETRIES),
     Arg("--retry-sleep"), Decimal(RETRY_SLEEP),
     Arg("--socket-timeout"), Decimal(SOCKET_TIMEOUT),
     Arg("--sleep-interval"), Decimal(SLEEP_INTERVAL),
     Arg("--max-sleep-interval"), Decimal(MAX_SLEEP_INTERVAL),
     Arg("--no-warnings"), Arg("--ignore-errors"),
     Arg("--abort-on-unavailable-fragment"), Arg("--check-formats"),
     Arg("--no-post-overwrites"), Arg("--prefer-ffmpeg"),
     Arg("--geo-bypass"), Arg("--no-check-certificate"),
     Arg("--concurrent-fragments"), Decimal(CONCURRENT_FRAGMENTS),
     Arg("--buffer-size"), Arg(BUFFER_SIZE) >>

\* lines 292-305
MetadataOptions(download_metadata) ==
  IF download_metadata
  THEN <<Arg("--write-info-json"), Arg("--write-description"),
         Arg("--write-thumbnail"), Arg("--embed-metadata")>>
  ELSE <<Arg("--no-write-info-json"), Arg("--no-write-description"),
         Arg("--no-write-thumbnail")>>

\* lines 307-313
SubtitleOptions(download_subtitles) ==
  IF download_subtitles
  THEN <<Arg("--write-subs"), Arg("--write-auto-subs"), Arg("--embed-subs")>>
  ELSE <<>>

\* _add_audio_quality_option (lines 427-431)
add_audio_quality_option(audio_quality) ==
  IF audio_quality # HighestAudio
  THEN <<Arg("--audio-quality"), Arg(AudioQualityValue(audio_quality))>>
  ELSE <<>>

\* _add_time_sections (lines 433-445)
add_time_sections_StartOnly(start_seconds, end_seconds) ==
  IF start_seconds # NoneV
  THEN <<Arg("--download-sections"),
         <<"*">> \o format_seconds_to_time(start_seconds.val)
           \o <<"-", "i", "n", "f">>>>
  ELSE <<>>

add_time_sections(start_seconds, end_seconds) ==
  IF start_seconds # NoneV /\ end_seconds # NoneV
  THEN <<Arg("--download-sections"),
         <<"*">> \o format_seconds_to_time(start_seconds.val) \o <<"-">>
           \o format_seconds_to_time(end_seconds.val)>>
  ELSE IF start_seconds # NoneV
  THEN <<Arg("--download-sections"),
         <<"*">> \o format_seconds_to_time(start_seconds.val)
           \o <<"-", "i", "n", "f">>>>
  ELSE IF end_seconds # NoneV
  THEN <<Arg("--download-sections"),
         <<"*", "0", "-">> \o format_seconds_to_time(end_seconds.val)>>
  ELSE <<>>

BestMp4 ==
  Arg("bestvideo*[ext=mp4]+bestaudio[ext=m4a]/bestvideo*+bestaudio[ext=m4a]/bestvideo*+bestaudio/best")

BestAny == Arg("bestvideo*+bestaudio/best")

\* quality_selection.replace('p', '')
Height(quality_selection) == SelectSeq(quality_selection, LAMBDA c : c # "p")

HeightMp4(height) ==
  <<"bestvideo[height<=">> \o height
    \o <<"][ext=mp4]+bestaudio[ext=m4a]/bestvideo[height<=">> \o height
    \o <<"]+bestaudio[ext=m4a]/bestvideo[height<=">> \o height
    \o <<"]+bestaudio/best[height<=">> \o height \o <<"]">>

HeightAny(height) ==
  <<"bestvideo[height<=">> \o height \o <<"]+bestaudio/best[height<=">>
    \o height \o <<"]">>

\* _get_time_section_format_string (lines 447-461) and
\* _get_video_format_string (lines 463-480), which give the same strings
get_video_format_string(video_format, quality_selection) ==
  IF quality_selection = HighestVideo
  THEN IF video_format = "mp4" THEN BestMp4 ELSE BestAny
  ELSE IF video_format = "mp4" THEN HeightMp4(Height(quality_selection))
       ELSE HeightAny(Height(quality_selection))

get_time_section_format_string(video_format, quality_selection) ==
  get_video_format_string(video_format, quality_selection)

AacArgs == Arg("ffmpeg:-c:a aac -b:a 192k")

\* lines 375-385: a video download with a time section
TimedVideoOptions_SelectedContainer(settings) ==
  <<Arg("-f"),
    get_time_section_format_string(settings.format, settings.video_quality),
    Arg("--merge-output-format"), Arg(settings.format),
    Arg("--remux-video"), Arg(settings.format)>>
    \o add_audio_quality_option(settings.audio_quality)

TimedVideoOptions(settings) ==
  <<Arg("-f"),
    get_time_section_format_string("mp4", settings.video_quality),
    Arg("--merge-output-format"), Arg("mp4"),
    Arg("--remux-video"), Arg("mp4"),
    Arg("--postprocessor-args"), AacArgs>>
    \o add_audio_quality_option(settings.audio_quality)

\* lines 369-373: an audio download with a time section
TimedAudioOptions(settings) ==
  <<Arg("-f"),
    Arg("bestaudio[ext=m4a]/bestaudio[acodec^=mp4a]/bestaudio[container^=mp4]/bestaudio/best"),
    Arg("--extract-audio"), Arg("--audio-format"), Arg(settings.format)>>
    \o add_audio_quality_option(settings.audio_quality)

\* lines 388-390: a full audio download
FullAudioOptions(settings) ==
  <<Arg("-f"), Arg("bestaudio/best"), Arg("--extract-audio"),
    Arg("--audio-format"), Arg(settings.format)>>
    \o add_audio_quality_option(settings.audio_quality)

\* lines 391-425: a full video download
FullVideoOptions(settings) ==
  ( IF settings.video_quality = HighestVideo
    THEN IF settings.format = "mp4"
         THEN <<Arg("-f"), BestMp4, Arg("--merge-output-format"), Arg("mp4"),
                Arg("--remux-video"), Arg("mp4"),
                Arg("--postprocessor-args"), AacArgs>>
         ELSE IF settings.format = "webm"
         THEN <<Arg("-f"), BestAny, Arg("--merge-output-format"), Arg("webm")>>
         ELSE <<>>
    ELSE <<Arg("-f"),
           get_video_format_string(settings.format, settings.video_quality)>>
         \o ( IF settings.format = "mp4"
              THEN <<Arg("--merge-output-format"), Arg("mp4"),
                     Arg("--remux-video"), Arg("mp4"),
                     Arg("--postprocessor-args"), AacArgs>>
              ELSE IF settings.format = "webm"
              THEN <<Arg("--merge-output-format"), Arg("webm"),
                     Arg("--postprocessor-args"),
                     Arg("ffmpeg:-c:v libvpx-vp9 -c:a libopus")>>
              ELSE <<>> ) )
    \o add_audio_quality_option(settings.audio_quality)

\* _add_format_options (lines 353-425): the options it appends
add_format_options(settings, is_audio_download, start_seconds, end_seconds) ==
  IF start_seconds # NoneV \/ end_seconds # NoneV
  THEN ( IF is_audio_download THEN TimedAudioOptions(settings)
         ELSE TimedVideoOptions(settings) )
       \o add_time_sections(start_seconds, end_seconds)
  ELSE IF is_audio_download THEN FullAudioOptions(settings)
  ELSE FullVideoOptions(settings)

\* line 316
IsAudioDownload(settings) == settings.format \in {"mp3", "m4a"}

\* lines 319-327: the output template
OutputOptions(settings) ==
  IF settings.custom_filename # <<>>
  THEN <<Arg("-o"),
         Expand(sanitize_filename(settings.custom_filename))
           \o <<".%(ext)s">>>>
  ELSE <<Arg("-o"), Arg("%(title)s.%(ext)s"), Arg("--restrict-filenames")>>

build_command(settings, ffmpeg_path, ytdlp_path, start_seconds, end_seconds) ==
  BaseCommand(settings, ffmpeg_path, ytdlp_path)
    \o MetadataOptions(settings.download_metadata)
    \o SubtitleOptions(settings.download_subtitles)
    \o add_format_options(settings, IsAudioDownload(settings),
                          start_seconds, end_seconds)
    \o OutputOptions(settings)
    \o <<settings.url>>

\* _build_command applied to generated settings
VideoQualities == {HighestVideo, <<"7", "2", "0", "p">>}

AudioQualities == {HighestAudio, "192kbps"}

Locations == {<<>>, <<"D", ":", "/", "v">>}

Filenames == {<<>>, <<Run("a", 1), Run("<", 1), Run(" ", 1)>>}

\* None, and numbers of seconds up to MaxHours hours
BuildSeconds ==
  {NoneV} \cup {IntV(n) : n \in {0, 61, MaxHours * 3600 - 1, MaxHours * 3600}}

BuildInputs ==
  {[settings |-> DownloadSettings(f, vq, aq, loc, name, md, subs),
    start_seconds |-> st, end_seconds |-> en] :
     f \in Formats, vq \in VideoQualities, aq \in AudioQualities,
     loc \in Locations, name \in Filenames, md \in BOOLEAN, subs \in BOOLEAN,
     st \in BuildSeconds, en \in BuildSeconds}

BuildInit ==
  /\ build_in \in BuildInputs
  /\ build_out = <<>>

BuildCommand ==
  /\ build_out = <<>>
  /\ build_out' = build_command(build_in.settings, "ffmpeg.exe", "yt-dlp.exe",
                                build_in.start_seconds, build_in.end_seconds)
  /\ UNCHANGED <<build_in, lineVars, nameVars>>
  /\ UNCHANGED <<urlVars, urlCheckVars, presetVars>>
  /\ UNCHANGED <<engineVars, outputVars, timeVars, panelVars>>

BuildNext == BuildCommand

\* no line is being classified, no command built
LineIdle ==
  /\ line_in = <<>>
  /\ line_timed = FALSE
  /\ line_out = Pending

BuildIdle ==
  /\ build_in = Pending
  /\ build_out = <<>>

UtilIdle == LineIdle /\ BuildIdle /\ NameIdle

CoreIdle == UrlIdle /\ UrlCheckIdle /\ PresetIdle /\ UtilIdle

\* the list self.patterns of validator v refers to
PatternsOf(v) == pattern_lists[validator_list[v]]

\* line 28: patterns or YOUTUBE_PATTERNS
PatternsOrDefault(v, patterns) ==
  IF patterns.tag = "None" \/ patterns.list = <<>> THEN 0 ELSE v

\* URLValidator.__init__ (lines 20-28) for validator v
NewValidator(v, patterns) ==
  /\ validator_list[v] = -1
  /\ validator_list' = [validator_list EXCEPT ![v] = PatternsOrDefault(v, patterns)]
  /\ pattern_lists' =
       [pattern_lists EXCEPT ![v] = patterns.list]
  /\ UNCHANGED <<patched, urlCheckVars>>
  /\ UNCHANGED <<engineVars, outputVars, utilVars, timeVars, panelVars, presetVars>>

\* p in self.patterns
InList(p, list) == \E k \in 1..Len(list) : list[k] = p

\* URLValidator.add_pattern (lines 74-82): appends to the list object
AddPattern(v, p) ==
  /\ validator_list[v] # -1
  /\ pattern_lists' =
       [pattern_lists EXCEPT ![validator_list[v]] =
          IF InList(p, @) THEN @ ELSE Append(@, p)]
  /\ patched' = patched \cup {v}
  /\ UNCHANGED <<validator_list, urlCheckVars>>
  /\ UNCHANGED <<engineVars, outputVars, utilVars, timeVars, panelVars, presetVars>>

\* list.remove(p): the list without the first occurrence of p
RemoveFirst(list, p) ==
  LET k == CHOOSE i \in 1..Len(list) :
             list[i] = p /\ \A j \in 1..(i - 1) : list[j] # p
  IN SubSeq(list, 1, k - 1) \o SubSeq(list, k + 1, Len(list))

\* URLValidator.remove_pattern (lines 84-98)
RemovePattern(v, p) ==
  /\ validator_list[v] # -1
  /\ pattern_lists' =
       [pattern_lists EXCEPT ![validator_list[v]] =
          IF InList(p, @) THEN RemoveFirst(@, p) ELSE @]
  /\ patched' = patched \cup {v}
  /\ UNCHANGED <<validator_list, urlCheckVars>>
  /\ UNCHANGED <<engineVars, outputVars, utilVars, timeVars, panelVars, presetVars>>

\* URLs put together from pieces, with and without blanks around them
UrlStrings ==
  { lead \o scheme \o sub \o <<host, path>> \o id \o rest :
      lead \in {<<>>, <<" ">>},
      scheme \in {<<>>, <<"http://">>, <<"https://">>, <<"HTTPS://">>,
                  <<"ftp://">>},
      sub \in {<<>>, <<"www.">>, <<"m.">>, <<"WWW.">>},
      host \in {"youtube.com", "YouTube.com", "youtu.be",
                "music.youtube.com", "vimeo.com"},
      path \in {"/watch?v=", "/playlist?list=", "/shorts/", "/live/", "/",
                "/embed/"},
      id \in {<<>>, <<"dQw4w9WgXcQ">>, <<"a-b_1">>},
      rest \in {<<>>, <<"&t=1s">>, <<" ">>} }

\* what may be handed in as url
UrlInputs ==
  {StrUrl(u) : u \in UrlStrings}
    \cup {NoUrl, NumberUrl, StrUrl(<<>>), StrUrl(<<" ">>),
          StrUrl(UrlPlaceholder), StrUrl(<<" ">> \o UrlPlaceholder)}

\* pattern lists a validator may hold
PatternLists ==
  { YOUTUBE_PATTERNS, Append(YOUTUBE_PATTERNS, MusicPattern),
    Tail(YOUTUBE_PATTERNS), <<MusicPattern>> }

UrlCheckInit ==
  /\ UrlIdle
  /\ PresetIdle
  /\ UtilIdle
  /\ url_in \in UrlInputs
  /\ url_patterns \in PatternLists
  /\ url_out = NoUrlOutcome

\* is_valid_youtube_url(url_in) and validate_url_input(url_in) on a
\* validator that holds url_patterns
ValidateUrlInput ==
  /\ ~url_out.done
  /\ url_out' = [done |-> TRUE,
                 accepted |-> is_valid_youtube_url(url_patterns, url_in),
                 result |-> validate_url_input(url_patterns, url_in)]
  /\ UNCHANGED <<url_in, url_patterns, urlVars>>
  /\ UNCHANGED <<engineVars, outputVars, utilVars, timeVars, panelVars, presetVars>>

UrlCheckNext == ValidateUrlInput

UrlCheckStart == EngineInit /\ TimeIdle /\ PanelInit /\ OutputIdle /\ UrlCheckInit

UrlCheckSpec == UrlCheckStart /\ [][UrlCheckNext]_vars

PresetNext ==
  \/ \E m \in Managers : NewPresetManager(m)
  \/ \E m \in Managers, fq \in AddedPresets :
       AddPreset(m, fq[1], fq[2], CustomPreset)
  \/ \E m \in Managers, fq \in RemovedPresets : RemovePreset(m, fq[1], fq[2])
  \/ \E m \in Managers : ResetToDefaults(m)

PresetStart == EngineInit /\ TimeIdle /\ PanelInit /\ OutputIdle /\ CoreIdle

PresetSpec == PresetStart /\ [][PresetNext]_vars

UrlNext ==
  \/ \E v \in Validators, patterns \in ConstructorLists :
       NewValidator(v, patterns)
  \/ \E v \in Validators, p \in PatternArgs : AddPattern(v, p)
  \/ \E v \in Validators, p \in PatternArgs : RemovePattern(v, p)

UrlStart == EngineInit /\ TimeIdle /\ PanelInit /\ OutputIdle /\ CoreIdle

UrlSpec == UrlStart /\ [][UrlNext]_vars

\* ------------------------------------------------------------------
\* DownloadEngine.start_download (download_engine.py lines 77-118)
\* ------------------------------------------------------------------

\* the fields of the engine, its threads and its child processes
EngineFields ==
  <<is_downloading, download_process, download_thread, wpc, waitOn,
    pstate, returncode, tpc, tpolls, cbs>>

\* the outcome of a start_download call, as the caller observes it
StartOutcome(ff, yt, iv, ret, err) ==
  [op |-> "start", busy |-> is_downloading,
   deps |-> (ff # NoPath /\ yt # NoPath),
   interval |-> IF iv.raised THEN "TypeError" ELSE iv.error,
   ret |-> ret, err |-> err, changed |-> EngineFields' # EngineFields]

\* a return without a new thread: on_error(err) if there is a message
StartRejected(ff, yt, iv, ret, err) ==
  /\ UNCHANGED <<is_downloading, download_process, download_thread, wpc,
                 waitOn, pstate, returncode, tpc,
                 tpolls, cbs>>
  /\ lastCall' = StartOutcome(ff, yt, iv, ret, err)

\* lines 110-118: the flag is set and the worker thread is started
StartWorker(ff, yt, iv) ==
  /\ download_thread < MaxDownloads
  /\ is_downloading' = TRUE
  /\ download_thread' = download_thread + 1
  /\ wpc' = [wpc EXCEPT ![download_thread + 1] = "popen"]
  /\ UNCHANGED <<download_process, waitOn, pstate, returncode, tpc, tpolls, cbs>>
  /\ lastCall' = StartOutcome(ff, yt, iv, "True", NoError)

StartDownload_NoBusyCheck(ffmpeg_path, ytdlp_path, start_time, end_time) ==
  LET iv == IntervalOf[<<start_time, end_time>>] IN
  /\ IF ytdlp_path = NoPath \/ ffmpeg_path = NoPath
     THEN StartRejected(ffmpeg_path, ytdlp_path, iv, "False", ErrDeps)
     ELSE IF iv.raised
     THEN StartRejected(ffmpeg_path, ytdlp_path, iv, "raise", NoError)
     ELSE IF iv.error # NoError
     THEN StartRejected(ffmpeg_path, ytdlp_path, iv, "False", iv.error)
     ELSE StartWorker(ffmpeg_path, ytdlp_path, iv)
  /\ UNCHANGED <<timeVars, panelVars, coreVars, outputVars, attemptVars>>

StartDownload_TimeErrorStarts(ffmpeg_path, ytdlp_path, start_time, end_time) ==
  LET iv == IntervalOf[<<start_time, end_time>>] IN
  /\ IF is_downloading
     THEN StartRejected(ffmpeg_path, ytdlp_path, iv, "False", NoError)
     ELSE IF ytdlp_path = NoPath \/ ffmpeg_path = NoPath
     THEN StartRejected(ffmpeg_path, ytdlp_path, iv, "False", ErrDeps)
     ELSE IF iv.raised
     THEN StartRejected(ffmpeg_path, ytdlp_path, iv, "raise", NoError)
     ELSE StartWorker(ffmpeg_path, ytdlp_path, iv)
  /\ UNCHANGED <<timeVars, panelVars, coreVars, outputVars, attemptVars>>

StartDownload_DepsUnchecked(ffmpeg_path, ytdlp_path, start_time, end_time) ==
  LET iv == IntervalOf[<<start_time, end_time>>] IN
  /\ IF is_downloading
     THEN StartRejected(ffmpeg_path, ytdlp_path, iv, "False", NoError)
     ELSE IF ytdlp_path = NoPath
     THEN StartRejected(ffmpeg_path, ytdlp_path, iv, "False", ErrDeps)
     ELSE IF iv.raised
     THEN StartRejected(ffmpeg_path, ytdlp_path, iv, "raise", NoError)
     ELSE IF iv.error # NoError
     THEN StartRejected(ffmpeg_path, ytdlp_path, iv, "False", iv.error)
     ELSE StartWorker(ffmpeg_path, ytdlp_path, iv)
  /\ UNCHANGED <<timeVars, panelVars, coreVars, outputVars, attemptVars>>

\* start_download (lines 77-118) on the fields of the engine
start_download(ffmpeg_path, ytdlp_path, start_time, end_time) ==
  LET iv == IntervalOf[<<start_time, end_time>>] IN
  IF is_downloading
  THEN StartRejected(ffmpeg_path, ytdlp_path, iv, "False", NoError)
  ELSE IF ytdlp_path = NoPath \/ ffmpeg_path = NoPath
  THEN StartRejected(ffmpeg_path, ytdlp_path, iv, "False", ErrDeps)
  ELSE IF iv.raised
  THEN StartRejected(ffmpeg_path, ytdlp_path, iv, "raise", NoError)
  ELSE IF iv.error # NoError
  THEN StartRejected(ffmpeg_path, ytdlp_path, iv, "False", iv.error)
  ELSE StartWorker(ffmpeg_path, ytdlp_path, iv)

StartDownload(ffmpeg_path, ytdlp_path, start_time, end_time) ==
  /\ start_download(ffmpeg_path, ytdlp_path, start_time, end_time)
  /\ UNCHANGED <<timeVars, panelVars, coreVars, outputVars, attemptVars>>

\* ------------------------------------------------------------------
\* DownloadEngine.cancel_download (lines 120-153) and its
\* terminate_process thread (lines 130-145)
\* ------------------------------------------------------------------

CancelOutcome ==
  [op |-> "cancel", busy |-> is_downloading, deps |-> TRUE,
   interval |-> NoError, ret |-> "None", err |-> NoError,
   changed |-> EngineFields' # EngineFields]

\* cancel_download (lines 120-153) on the fields of the engine
cancel_download ==
  /\ IF ~is_downloading
     THEN UNCHANGED <<is_downloading, tpc>>
     ELSE /\ is_downloading' = FALSE
          /\ tpc' = [tpc EXCEPT ![download_thread] = "check"]
  /\ UNCHANGED <<download_process, download_thread, wpc, waitOn, pstate,
                 returncode, tpolls, cbs>>
  /\ lastCall' = CancelOutcome

CancelDownload ==
  /\ cancel_download
  /\ UNCHANGED <<timeVars, panelVars, coreVars, outputVars, attemptVars>>

\* cancel_download has been called for download d
Cancelled(d) == tpc[d] # "none"

\* lines 132-133: terminate the process the field names, if it runs
TerminateCheck(c) ==
  /\ tpc[c] = "check"
  /\ IF download_process # 0 /\ Running(download_process)
     THEN /\ pstate' = [pstate EXCEPT ![download_process] = Terminate(@)]
          /\ tpc' = [tpc EXCEPT ![c] = "poll"]
     ELSE /\ tpc' = [tpc EXCEPT ![c] = "done"]
          /\ UNCHANGED pstate
  /\ UNCHANGED <<is_downloading, download_process, download_thread, wpc,
                 waitOn, returncode, tpolls, cbs, lastCall>>
  /\ UNCHANGED <<timeVars, panelVars, coreVars, outputVars, attemptVars>>

\* lines 136-139: the grace loop runs to its end. It polls the process the
\* field names up to GracePolls times, 0.1 s apart, and changes nothing:
\* either a poll finds that the process has exited (break), or every poll
\* finds it running; tpolls is the number of polls that found it running
TerminatePoll(c) ==
  /\ tpc[c] = "poll"
  /\ IF Running(download_process)
     THEN tpolls' = [tpolls EXCEPT ![c] = GracePolls]
     ELSE UNCHANGED tpolls
  /\ tpc' = [tpc EXCEPT ![c] = "final"]
  /\ UNCHANGED <<is_downloading, download_process, download_thread, wpc,
                 waitOn, pstate, returncode, cbs,
                 lastCall>>
  /\ UNCHANGED <<timeVars, panelVars, coreVars, outputVars, attemptVars>>

\* lines 142-143: kill the process the field names, if it still runs
KillIfRunning(p) == Running(p)

TerminateFinal(c) ==
  /\ tpc[c] = "final"
  /\ IF KillIfRunning(download_process)
     THEN pstate' = [pstate EXCEPT ![download_process] = "killed"]
     ELSE UNCHANGED pstate
  /\ tpc' = [tpc EXCEPT ![c] = "done"]
  /\ UNCHANGED <<is_downloading, download_process, download_thread, wpc,
                 waitOn, returncode, tpolls, cbs, lastCall>>
  /\ UNCHANGED <<timeVars, panelVars, coreVars, outputVars, attemptVars>>

\* ------------------------------------------------------------------
\* The child process (the yt-dlp executable)
\* ------------------------------------------------------------------

\* the child exits: on its own with any code, or, once terminate() or
\* kill() was called on it, with the non-zero code of a terminated process
ChildExit(p, code) ==
  /\ Running(p)
  /\ pstate[p] # "running" => code # 0
  /\ pstate' = [pstate EXCEPT ![p] = "exited"]
  /\ returncode' = [returncode EXCEPT ![p] = IntV(code)]
  /\ UNCHANGED <<is_downloading, download_process, download_thread, wpc,
                 waitOn, tpc, tpolls, cbs, lastCall>>
  /\ UNCHANGED <<timeVars, panelVars, coreVars, outputVars, attemptVars>>

\* ------------------------------------------------------------------
\* The worker thread: _download_worker_with_fallback (lines 189-236)
\* running _execute_download (lines 481-570)
\* ------------------------------------------------------------------

RetryStatus == "Retrying with MP4 format..."

\* whether _execute_download lets an exception out: its handlers (lines
\* 559-570) catch CalledProcessError, FileNotFoundError and every other
\* Exception, whether the child exited with a non-zero code, Popen failed,
\* or the download was cancelled
ExecuteDownloadRaises(ending) == FALSE

\* _execute_download_safe (lines 346-351): True unless _execute_download
\* raised
execute_download_safe(ending) == ~ExecuteDownloadRaises(ending)

\* lines 208-211: a second attempt is made if the first one was not a
\* success and the format is webm
Retries(d, ending) ==
  /\ Len(commands[d]) = 1
  /\ ~execute_download_safe(ending)
  /\ settings_format[d] = "webm"

\* _execute_download of worker d has returned (ending: how): lines 211-227
\* start the second attempt with its status, or the worker goes on to its
\* cleanup block
LeaveExecute(d, ending) ==
  IF Retries(d, ending)
  THEN /\ statuses' = [statuses EXCEPT ![d] = Append(@, RetryStatus)]
       /\ wpc' = [wpc EXCEPT ![d] = "popen"]
  ELSE /\ wpc' = [wpc EXCEPT ![d] = "finally"]
       /\ UNCHANGED statuses

\* lines 204 and 220, _build_command: the format of the command of the
\* next attempt of worker d
CommandFormat(d) == IF commands[d] = <<>> THEN settings_format[d] ELSE "mp4"

\* line 497, subprocess.Popen(...) on the command built: the child is
\* created, or Popen raises and the handlers of lines 565-570 report it
WorkerPopen(d) ==
  /\ wpc[d] = "popen"
  /\ commands' = [commands EXCEPT ![d] = Append(@, CommandFormat(d))]
  /\ \/ /\ pstate' = [pstate EXCEPT ![d] = "running"]
        /\ wpc' = [wpc EXCEPT ![d] = "assign"]
        /\ UNCHANGED <<cbs, statuses>>
     \/ /\ cbs' = [cbs EXCEPT ![d] = Append(cbs[d], OnError(ErrNotFound, NoneV))]
        /\ LeaveExecute(d, "popen failed")
        /\ UNCHANGED pstate
  /\ UNCHANGED <<is_downloading, download_process, download_thread, waitOn,
                 returncode, tpc, tpolls, lastCall, settings_format>>
  /\ UNCHANGED <<timeVars, panelVars, coreVars, outputVars>>

\* line 497, the assignment self.download_process = <the new Popen>, and
\* lines 507-528: the queue and the reader thread of this worker
WorkerAssign(d) ==
  /\ wpc[d] = "assign"
  /\ download_process' = d
  /\ wpc' = [wpc EXCEPT ![d] = "loop"]
  /\ statuses' = [statuses EXCEPT ![d] = Append(@, "Starting download...")]
  /\ UNCHANGED <<is_downloading, download_thread, waitOn, pstate,
                 returncode, tpc, tpolls, cbs, lastCall, settings_format, commands>>
  /\ UNCHANGED <<timeVars, panelVars, coreVars, outputVars>>

\* the reader thread of worker d has queued None: its pipe is at EOF
\* because its child has exited, or it saw
\* self.download_process.poll() is not None (lines 513-523)
EndSignal(d) == ~Running(d) \/ ~Running(download_process)

\* lines 531-544: the loop is left when the process the field names has
\* exited, when is_downloading is False, or on the end signal
WorkerLoopExit(d) ==
  /\ wpc[d] = "loop"
  /\ \/ ~Running(download_process)
     \/ ~is_downloading
     \/ EndSignal(d)
  /\ wpc' = [wpc EXCEPT ![d] = "check"]
  /\ UNCHANGED <<is_downloading, download_process, download_thread, waitOn,
                 pstate, returncode, tpc, tpolls, cbs,
                 lastCall>>
  /\ UNCHANGED <<timeVars, panelVars, coreVars, outputVars, attemptVars>>

\* lines 547-550: return if cancelled, else block in
\* self.download_process.wait()
WorkerCheck(d) ==
  /\ wpc[d] = "check"
  /\ IF ~is_downloading
     THEN /\ LeaveExecute(d, "cancelled")
          /\ UNCHANGED waitOn
     ELSE /\ wpc' = [wpc EXCEPT ![d] = "wait"]
          /\ waitOn' = [waitOn EXCEPT ![d] = download_process]
          /\ UNCHANGED statuses
  /\ UNCHANGED <<is_downloading, download_process, download_thread, pstate,
                 returncode, tpc, tpolls, cbs, lastCall, settings_format, commands>>
  /\ UNCHANGED <<timeVars, panelVars, coreVars, outputVars>>

\* lines 551-557: the terminal callback for self.download_process.returncode
TerminalCallback(rc) ==
  IF rc = IntV(0) THEN OnSuccess ELSE OnError(ErrReturnCode, rc)

\* lines 550-557: wait() returns once the process has exited
WorkerReport(d) ==
  /\ wpc[d] = "wait"
  /\ ~Running(waitOn[d])
  /\ cbs' = [cbs EXCEPT
       ![d] = Append(cbs[d], TerminalCallback(returncode[download_process]))]
  /\ LeaveExecute(d, "reported")
  /\ waitOn' = [waitOn EXCEPT ![d] = 0]
  /\ UNCHANGED <<is_downloading, download_process, download_thread, pstate,
                 returncode, tpc, tpolls, lastCall, settings_format, commands>>
  /\ UNCHANGED <<timeVars, panelVars, coreVars, outputVars>>

\* lines 228-236: the cleanup block terminates the process the field names
WorkerFinally(d) ==
  /\ wpc[d] = "finally"
  /\ IF download_process # 0 /\ Running(download_process)
     THEN pstate' = [pstate EXCEPT ![download_process] = Terminate(@)]
     ELSE UNCHANGED pstate
  /\ wpc' = [wpc EXCEPT ![d] = "done"]
  /\ UNCHANGED <<is_downloading, download_process, download_thread, waitOn,
                 returncode, tpc, tpolls, cbs, lastCall>>
  /\ UNCHANGED <<timeVars, panelVars, coreVars, outputVars, attemptVars>>

\* ------------------------------------------------------------------
\* DownloadEngine._process_download_line (lines 572-617)
\* ------------------------------------------------------------------

\* An output line is a sequence of tokens: the words the code looks for,
\* any other text, and numbers followed by a percent sign.
Word(w) == [w |-> w, n |-> 0]

Pct(p) == [w |-> "%", n |-> p]

PercentValues == {0, 50, 99, 100, 101, MaxPercent}

LineWords ==
  {"[download]", "ETA", "Destination", "Resuming", "frame=", "ffmpeg",
   "FFmpeg", "Merging", "merger", "Merger", "ERROR:", "error:",
   "conversion failed", "text"}

Tokens == {Word(w) : w \in LineWords} \cup {Pct(p) : p \in PercentValues}

Lines == UNION {[1..n -> Tokens] : n \in 1..MaxLineLen}

\* w in line
Has(line, w) == \E i \in 1..Len(line) : line[i] = Word(w)

\* str.lower() on the words of a line
LowerWord(w) ==
  IF w = "FFmpeg" THEN "ffmpeg"
  ELSE IF w = "Merger" THEN "merger"
  ELSE IF w = "ERROR:" THEN "error:"
  ELSE IF w = "Merging" THEN "merging"
  ELSE IF w = "Destination" THEN "destination"
  ELSE IF w = "Resuming" THEN "resuming"
  ELSE IF w = "ETA" THEN "eta"
  ELSE w

\* w in line.lower(), and likewise w.upper() in line.upper()
HasLower(line, w) ==
  \E i \in 1..Len(line) : line[i].w # "%" /\ LowerWord(line[i].w) = w

\* re.search(r'(\d+(?:\.\d+)?)%', line): the first number followed by %
PercentMatch(line) ==
  IF \E i \in 1..Len(line) : line[i].w = "%"
  THEN LET i == CHOOSE k \in 1..Len(line) :
                  /\ line[k].w = "%"
                  /\ \A j \in 1..(k - 1) : line[j].w # "%"
       IN IntV(line[i].n)
  ELSE NoneV

\* on_progress(90, ...) of line 605
FfmpegPercent == 90

\* on_progress(95, ...) of line 611
MergePercent == 95

\* the callbacks one output line causes: the status text of
\* on_status_update (or NoError) and the percentage of on_progress (or
\* NoneV); where both are invoked, on_status_update comes first
LineEvents(status, progress) == [status |-> status, progress |-> progress]

process_download_line_FfmpegFirst(line, timed) ==
  IF line[1] = Word("frame=") \/ HasLower(line, "ffmpeg")
  THEN LineEvents(IF timed THEN "Trimming video..." ELSE "Processing video...",
                  IntV(FfmpegPercent))
  ELSE IF Has(line, "[download]")
  THEN LineEvents(NoError, PercentMatch(line))
  ELSE IF Has(line, "Merging") \/ HasLower(line, "merger")
  THEN LineEvents("Merging audio and video...", IntV(MergePercent))
  ELSE LineEvents(NoError, NoneV)

process_download_line(line, timed) ==
  IF Has(line, "[download]")
  THEN IF PercentMatch(line) # NoneV
       THEN LineEvents(NoError, PercentMatch(line))
       ELSE IF Has(line, "ETA")
       \* r'(\d+\.\d+)% of' cannot match where r'(\d+(?:\.\d+)?)%' did not
       THEN LineEvents(NoError, NoneV)
       ELSE IF Has(line, "Destination")
       THEN LineEvents("Preparing file...", NoneV)
       ELSE IF Has(line, "Resuming")
       THEN LineEvents("Resuming download...", NoneV)
       ELSE LineEvents(NoError, NoneV)
  ELSE IF line[1] = Word("frame=") \/ HasLower(line, "ffmpeg")
  THEN LineEvents(IF timed THEN "Trimming video..." ELSE "Processing video...",
                  IntV(FfmpegPercent))
  ELSE IF Has(line, "Merging") \/ HasLower(line, "merger")
  THEN LineEvents("Merging audio and video...", IntV(MergePercent))
  ELSE IF HasLower(line, "error:")
  THEN IF HasLower(line, "conversion failed") \/ HasLower(line, "merger")
       THEN LineEvents("Format conversion error detected...", NoneV)
       ELSE LineEvents(NoError, NoneV)
  ELSE LineEvents(NoError, NoneV)

\* _process_download_line applied to generated lines
LineInit ==
  /\ line_in \in Lines
  /\ line_timed \in BOOLEAN
  /\ line_out = Pending

ProcessDownloadLine ==
  /\ line_out = Pending
  /\ line_out' = process_download_line(line_in, line_timed)
  /\ UNCHANGED <<line_in, line_timed, buildVars, nameVars>>
  /\ UNCHANGED <<urlVars, urlCheckVars, presetVars>>
  /\ UNCHANGED <<engineVars, outputVars, timeVars, panelVars>>

LineNext == ProcessDownloadLine

\* ------------------------------------------------------------------
\* ProgressPanel (ui/progress_panel.py) and the handlers of
\* DownlyApplication (app.py) that drive it
\* ------------------------------------------------------------------

\* the upper end of the progress bar (progress_panel.py lines 149, 190)
FullPercent == 100

Min(a, b) == IF a < b THEN a ELSE b

Max(a, b) == IF a > b THEN a ELSE b

\* line 149: percent = max(0, min(percent, 100))
ClampPercent_NoUpperBound(percent) == Max(0, percent)

ClampPercent(percent) == Max(0, Min(percent, FullPercent))

\* "Downloading... p%"
Downloading(p) == [text |-> "Downloading...", pct |-> p]

\* ProgressPanel.finish_download (lines 130-138)
finish_download ==
  /\ progress_label' = Label("Ready to download")
  /\ progress_value' = 0
  /\ panel_is_downloading' = FALSE
  /\ is_mp3_finishing' = FALSE

\* a message box shown to the user
Box(kind, text) == [kind |-> kind, text |-> text]

\* app.py line 161
ErrFailedToStart == "Failed to start download. Please try again."

\* DownlyApplication._on_download_error (lines 189-196): the boxes shown
\* once the handler has run with App.is_downloading = flag; nothing is
\* shown if the flag is clear
ErrorBoxes(flag, error_message, boxes) ==
  IF ~flag THEN boxes ELSE boxes \cup {Box("error", error_message)}

\* DownlyApplication._on_download_click (lines 127-161), with the answer of
\* start_download, and ProgressPanel.start_download (lines 120-128); the
\* button is disabled while the panel is in its downloading state
AppDownloadClick(started) ==
  /\ ~panel_is_downloading
  /\ ~app_is_downloading
  /\ IF started
     THEN /\ app_is_downloading' = TRUE
          /\ panel_is_downloading' = TRUE
          /\ progress_label' = Label("Preparing download...")
          /\ progress_value' = 0
          /\ UNCHANGED messagebox
     ELSE /\ messagebox' = messagebox \cup {Box("error", ErrFailedToStart)}
          /\ UNCHANGED <<app_is_downloading, panel_is_downloading,
                         progress_label, progress_value>>
  /\ UNCHANGED <<is_mp3_finishing, raw_percent, cancel_timer>>
  /\ UNCHANGED <<engineVars, timeVars, coreVars, outputVars>>

\* DownlyApplication._on_cancel_click (lines 163-174)
AppCancelClick ==
  /\ app_is_downloading
  /\ app_is_downloading' = FALSE
  /\ progress_label' = Label("Cancelling download...")
  /\ cancel_timer' = "status"
  /\ UNCHANGED <<progress_value, panel_is_downloading, is_mp3_finishing,
                 raw_percent>>
  /\ UNCHANGED <<engineVars, timeVars, coreVars, outputVars, messagebox>>

\* line 173: after(100, set_status("Download cancelled"))
CancelStatusTimer ==
  /\ cancel_timer = "status"
  /\ cancel_timer' = "finish"
  /\ progress_label' = Label("Download cancelled")
  /\ UNCHANGED <<app_is_downloading, progress_value, panel_is_downloading,
                 is_mp3_finishing, raw_percent>>
  /\ UNCHANGED <<engineVars, timeVars, coreVars, outputVars, messagebox>>

\* line 174: after(200, finish_download)
CancelFinishTimer ==
  /\ cancel_timer = "finish"
  /\ cancel_timer' = "none"
  /\ finish_download
  /\ UNCHANGED <<app_is_downloading, raw_percent>>
  /\ UNCHANGED <<engineVars, timeVars, coreVars, outputVars, messagebox>>

\* ProgressPanel.set_progress (lines 140-175); shown is the label at the
\* time of the call
set_progress(percent, is_audio, shown) ==
  LET p == ClampPercent(percent) IN
  /\ progress_value' = p
  /\ IF is_audio /\ p >= FullPercent /\ ~is_mp3_finishing
     THEN /\ is_mp3_finishing' = TRUE
          /\ progress_label' = Label("Extracting Audio...")
     ELSE IF is_audio /\ is_mp3_finishing
     THEN /\ progress_label' = shown
          /\ UNCHANGED is_mp3_finishing
     ELSE /\ progress_label' = Downloading(p)
          /\ UNCHANGED is_mp3_finishing

\* DownlyApplication._on_status_update (app.py lines 198-200) with
\* ProgressPanel.set_status (lines 177-184), for the status the worker
\* reports when it has spawned the child (download_engine.py line 508)
AppStatusUpdate(status) ==
  /\ progress_label' = Label(status)
  /\ UNCHANGED <<app_is_downloading, progress_value, panel_is_downloading,
                 is_mp3_finishing, raw_percent, cancel_timer>>
  /\ UNCHANGED <<engineVars, timeVars, coreVars, outputVars, messagebox>>

\* what the output lines of the child make the worker report, each
\* distinct pair of callbacks once
ReportedEvents ==
  {process_download_line(line, timed) : line \in Lines, timed \in BOOLEAN}

\* the worker has classified one output line: _on_status_update (app.py
\* lines 198-200) and _on_download_progress (lines 176-178) for the events
\* ev of the line
AppDownloadLine(ev, is_audio) ==
  /\ ev.status # NoError \/ ev.progress # NoneV
  /\ IF ev.progress # NoneV
     THEN /\ set_progress(ev.progress.val, is_audio,
                          IF ev.status # NoError
                          THEN Label(ev.status)
                          ELSE progress_label)
          /\ raw_percent' = ev.progress
     ELSE /\ progress_label' = Label(ev.status)
          /\ UNCHANGED <<progress_value, is_mp3_finishing, raw_percent>>
  /\ UNCHANGED <<app_is_downloading, panel_is_downloading, cancel_timer>>
  /\ UNCHANGED <<engineVars, timeVars, coreVars, outputVars, messagebox>>

\* DownlyApplication._on_download_success (lines 180-187) with
\* ProgressPanel.set_success (lines 186-193)
AppDownloadSuccess ==
  /\ app_is_downloading
  /\ app_is_downloading' = FALSE
  /\ IF panel_is_downloading
     THEN finish_download
     ELSE UNCHANGED <<progress_label, progress_value, panel_is_downloading,
                      is_mp3_finishing>>
  /\ messagebox' = messagebox \cup {Box("info", "Download completed successfully!")}
  /\ UNCHANGED <<raw_percent, cancel_timer>>
  /\ UNCHANGED <<engineVars, timeVars, coreVars, outputVars>>

\* DownlyApplication._on_download_error (lines 189-196) with
\* ProgressPanel.set_error (lines 195-206)
AppDownloadError(error_message) ==
  /\ app_is_downloading
  /\ app_is_downloading' = FALSE
  /\ IF panel_is_downloading
     THEN finish_download
     ELSE UNCHANGED <<progress_label, progress_value, panel_is_downloading,
                      is_mp3_finishing>>
  /\ messagebox' = ErrorBoxes(app_is_downloading, error_message, messagebox)
  /\ UNCHANGED <<raw_percent, cancel_timer>>
  /\ UNCHANGED <<engineVars, timeVars, coreVars, outputVars>>

\* the application window: clicks, timers, and the callbacks of the engine
\* arriving in any order
PanelNext ==
  \/ \E started \in BOOLEAN : AppDownloadClick(started)
  \/ AppCancelClick
  \/ CancelStatusTimer
  \/ CancelFinishTimer
  \/ AppStatusUpdate("Starting download...")
  \/ \E ev \in ReportedEvents, is_audio \in BOOLEAN :
       AppDownloadLine(ev, is_audio)
  \/ AppDownloadSuccess
  \/ \E error_message \in {ErrReturnCode, ErrNotFound} :
       AppDownloadError(error_message)

PanelStart == EngineInit /\ TimeIdle /\ PanelInit /\ OutputIdle /\ CoreIdle

PanelSpec == PanelStart /\ [][PanelNext]_vars

\* ------------------------------------------------------------------
\* TimeValidator applied to generated time strings
\* ------------------------------------------------------------------

TimeDigits == {"0", "5", "6"}

\* digit strings of at most MaxFieldLen digits
TimeFields == UNION {[1..n -> TimeDigits] : n \in 0..MaxFieldLen}

\* one, two or three fields separated by colons
ColonStrings ==
  TimeFields
    \cup {a \o <<":">> \o b : a \in TimeFields, b \in TimeFields}
    \cup {a \o <<":">> \o b \o <<":">> \o c :
            a \in TimeFields, b \in TimeFields, c \in TimeFields}

\* the same with surrounding blanks, the placeholder, and other text
TimeInputs ==
  ColonStrings
    \cup {<<" ">> \o t : t \in ColonStrings}
    \cup {t \o <<" ">> : t \in ColonStrings}
    \cup {Placeholder, <<" ">> \o Placeholder, <<"x">>, <<"5", "x">>,
          <<"5", " ", "5">>}

TimeInit ==
  /\ time_in \in TimeInputs
  /\ time_out = Pending
  /\ time_fmt = <<>>
  /\ time_back = Pending
  /\ IntervalIdle

\* TimeValidator.validate_time_format(time_in)
ValidateTimeFormat ==
  /\ time_out = Pending
  /\ time_out' = validate_time_format(time_in)
  /\ UNCHANGED <<time_in, time_fmt, time_back, ivVars, engineVars, panelVars,
                 coreVars, outputVars>>

TimeNext == ValidateTimeFormat

TimeStart == EngineInit /\ TimeInit /\ PanelInit /\ OutputIdle /\ CoreIdle

TimeSpec == TimeStart /\ [][TimeNext]_vars

\* ------------------------------------------------------------------
\* Parsing, formatting and parsing again
\* ------------------------------------------------------------------

\* numbers of seconds up to MaxHours hours, near the ends of each hour
SecondsValues ==
  {h * 3600 + m * 60 + sec :
     h \in 0..MaxHours, m \in {0, 1, 59}, sec \in {0, 1, 59}}

\* time strings in the three forms, and the numbers of seconds as digits
RoundTripInputs == ColonStrings \cup {Decimal(n) : n \in SecondsValues}

RoundTripInit ==
  /\ time_in \in RoundTripInputs
  /\ time_out = Pending
  /\ time_fmt = <<>>
  /\ time_back = Pending
  /\ IntervalIdle

\* TimeValidator.format_seconds_to_time(time_out)
FormatSeconds ==
  /\ time_out.tag = "int"
  /\ time_fmt = <<>>
  /\ time_fmt' = format_seconds_to_time(time_out.val)
  /\ UNCHANGED <<time_in, time_out, time_back, ivVars, engineVars, panelVars,
                 coreVars, outputVars>>

\* TimeValidator.validate_time_format(time_fmt)
ValidateFormatted ==
  /\ time_fmt # <<>>
  /\ time_back = Pending
  /\ time_back' = validate_time_format(time_fmt)
  /\ UNCHANGED <<time_in, time_out, time_fmt, ivVars, engineVars, panelVars,
                 coreVars, outputVars>>

RoundTripNext == ValidateTimeFormat \/ FormatSeconds \/ ValidateFormatted

RoundTripStart == EngineInit /\ RoundTripInit /\ PanelInit /\ OutputIdle /\ CoreIdle

RoundTripSpec == RoundTripStart /\ [][RoundTripNext]_vars

\* ------------------------------------------------------------------
\* validate_time_interval applied to pairs of time strings
\* ------------------------------------------------------------------

\* what the two entry widgets may hold
IntervalTimes ==
  { <<>>, Placeholder, <<" ">>,
    <<"0", "0", ":", "0", "0", ":", "0", "0">>,
    <<"0", "0", ":", "0", "0", ":", "0", "5">>,
    <<"0">>, <<"5">>, <<"6">>, <<" ", "6">>,
    <<"0", ":", "0", "5">>, <<"1", ":", "0", "0">>,
    <<"0", ":", "6", "5">>, <<"x">> }

IntervalInit ==
  /\ time_in = <<>>
  /\ time_out = Pending
  /\ time_fmt = <<>>
  /\ time_back = Pending
  /\ iv_start \in IntervalTimes
  /\ iv_end \in IntervalTimes
  /\ iv_out = Pending

\* TimeValidator.validate_time_interval(iv_start, iv_end)
ValidateTimeInterval ==
  /\ iv_out = Pending
  /\ iv_out' = validate_time_interval(iv_start, iv_end)
  /\ UNCHANGED <<iv_start, iv_end, time_in, time_out, time_fmt, time_back,
                 engineVars, panelVars,
                 coreVars, outputVars>>

IntervalNext == ValidateTimeInterval

IntervalStart == EngineInit /\ IntervalInit /\ PanelInit /\ OutputIdle /\ CoreIdle

IntervalSpec == IntervalStart /\ [][IntervalNext]_vars

\* ------------------------------------------------------------------
\* The engine with its threads and child processes
\* ------------------------------------------------------------------

\* the steps of the worker threads, the termination threads and the
\* child processes
Threads ==
  \/ \E d \in Downloads : TerminateCheck(d)
  \/ \E d \in Downloads : TerminatePoll(d)
  \/ \E d \in Downloads : TerminateFinal(d)
  \/ \E d \in Downloads, code \in ExitCodes : ChildExit(d, code)
  \/ \E d \in Downloads : WorkerPopen(d)
  \/ \E d \in Downloads : WorkerAssign(d)
  \/ \E d \in Downloads : WorkerLoopExit(d)
  \/ \E d \in Downloads : WorkerCheck(d)
  \/ \E d \in Downloads : WorkerReport(d)
  \/ \E d \in Downloads : WorkerFinally(d)

Init == EngineInit /\ TimeIdle /\ PanelInit /\ OutputIdle /\ CoreIdle

\* the user starts downloads with resolved dependencies and no interval,
\* and cancels them, in any order and at any time
Next ==
  \/ StartDownload("exe", "exe", <<>>, <<>>)
  \/ CancelDownload
  \/ Threads

Spec == Init /\ [][Next]_vars

\* start_download is tried with every class of input
ApiStart ==
  \E dp \in DepPairs, iv \in EngineIntervals :
    /\ StartDownload(dp[1], dp[2], iv[1], iv[2])
    /\ lastCall'.ret = "True" => download_thread < MaxApiDownloads

ApiNext ==
  \/ ApiStart
  \/ CancelDownload
  \/ Threads

ApiSpec == Init /\ [][ApiNext]_vars

\* the same calls, each download asking for any of the formats
FallbackInit ==
  /\ EngineIdle
  /\ settings_format \in [Downloads -> Formats]
  /\ TimeIdle /\ PanelInit /\ OutputIdle /\ CoreIdle

FallbackSpec == FallbackInit /\ [][ApiNext]_vars

\* DownlyApplication._on_download_click (lines 127-161) calling
\* start_download: the engine calls on_error, which is
\* _on_download_error (lines 111-116), before it returns False; the
\* handler then shows its own box (line 161); an exception out of
\* start_download ends the handler
AppClickStart(ffmpeg_path, ytdlp_path, start_time, end_time) ==
  /\ ~panel_is_downloading
  /\ ~app_is_downloading
  /\ start_download(ffmpeg_path, ytdlp_path, start_time, end_time)
  /\ LET reported ==
           IF lastCall'.err = NoError THEN messagebox
           ELSE ErrorBoxes(app_is_downloading, lastCall'.err, messagebox)
     IN IF lastCall'.ret = "True"
        THEN /\ app_is_downloading' = TRUE
             /\ panel_is_downloading' = TRUE
             /\ progress_label' = Label("Preparing download...")
             /\ progress_value' = 0
             /\ messagebox' = reported
        ELSE /\ messagebox' =
                  IF lastCall'.ret = "False"
                  THEN reported \cup {Box("error", ErrFailedToStart)}
                  ELSE reported
             /\ UNCHANGED <<app_is_downloading, panel_is_downloading,
                            progress_label, progress_value>>
  /\ UNCHANGED <<is_mp3_finishing, raw_percent, cancel_timer>>
  /\ UNCHANGED <<timeVars, coreVars, outputVars, attemptVars>>

\* the download button is clicked with every class of input
ClickStart ==
  \E dp \in DepPairs, iv \in EngineIntervals :
    /\ AppClickStart(dp[1], dp[2], iv[1], iv[2])
    /\ lastCall'.ret = "True" => download_thread < MaxApiDownloads

\* DownlyApplication._on_cancel_click (lines 163-174) calling
\* cancel_download
AppClickCancel ==
  /\ app_is_downloading
  /\ cancel_download
  /\ app_is_downloading' = FALSE
  /\ progress_label' = Label("Cancelling download...")
  /\ cancel_timer' = "status"
  /\ UNCHANGED <<progress_value, panel_is_downloading, is_mp3_finishing,
                 raw_percent, messagebox>>
  /\ UNCHANGED <<timeVars, coreVars, outputVars, attemptVars>>

ClickNext ==
  \/ ClickStart
  \/ AppClickCancel
  \/ CancelStatusTimer
  \/ CancelFinishTimer
  \/ Threads

ClickSpec == Init /\ [][ClickNext]_vars

LineStart ==
  /\ EngineInit /\ TimeIdle /\ PanelInit /\ OutputIdle
  /\ UrlIdle /\ UrlCheckIdle /\ PresetIdle
  /\ LineInit /\ BuildIdle /\ NameIdle

LineSpec == LineStart /\ [][LineNext]_vars

NameStart ==
  /\ EngineInit /\ TimeIdle /\ PanelInit /\ OutputIdle
  /\ UrlIdle /\ UrlCheckIdle /\ PresetIdle
  /\ LineIdle /\ BuildIdle /\ NameInit

NameSpec == NameStart /\ [][NameNext]_vars

BuildStart ==
  /\ EngineInit /\ TimeIdle /\ PanelInit /\ OutputIdle
  /\ UrlIdle /\ UrlCheckIdle /\ PresetIdle
  /\ LineIdle /\ BuildInit /\ NameIdle

BuildSpec == BuildStart /\ [][BuildNext]_vars

\* ------------------------------------------------------------------
\* _execute_download (lines 497-557) of one download that is not
\* cancelled: the child, read_output and the worker's loop
\* ------------------------------------------------------------------

\* the lines the child writes, as readline returns them: text, text with
\* spaces around it, and a blank line
OutputLines ==
  { <<"a", "\n">>, <<" ", "b", " ", "\n">>, <<"\n">> }

\* the items of output_queue: a line, or the None that signals the end
QueueLine(line) == [tag |-> "line", line |-> line]

QueueEnd == [tag |-> "None", line |-> <<>>]

\* lines 497-528: Popen has created the child, the queue is created and
\* the thread of read_output is started
StartReader ==
  /\ loop_pc = "none"
  /\ loop_pc' = "while"
  /\ reader_pc' = "readline"
  /\ UNCHANGED <<child_returncode, stdout_pipe, written, output_queue,
                 classified, terminal>>
  /\ UNCHANGED <<engineVars, timeVars, panelVars, coreVars, cancelVars>>

\* the child writes a line to its output
ChildWrite(line) ==
  /\ loop_pc # "none"
  /\ child_returncode = NoneV
  /\ Len(written) < MaxOutputLines
  /\ stdout_pipe' = Append(stdout_pipe, line)
  /\ written' = Append(written, line)
  /\ UNCHANGED <<child_returncode, output_queue, reader_pc, loop_pc,
                 classified, terminal>>
  /\ UNCHANGED <<engineVars, timeVars, panelVars, coreVars, cancelVars>>

\* the child exits, with a non-zero code once terminate() or kill() was
\* called on it; what it wrote stays in the pipe
ChildEnd(code) ==
  /\ loop_pc # "none"
  /\ child_returncode = NoneV
  /\ child_signal # "none" => code # 0
  /\ child_returncode' = IntV(code)
  /\ UNCHANGED <<stdout_pipe, written, output_queue, reader_pc, loop_pc,
                 classified, terminal>>
  /\ UNCHANGED <<engineVars, timeVars, panelVars, coreVars, cancelVars>>

\* lines 515-517, read_output: readline returns the next line of the pipe,
\* which is put on the queue, or '' at the end of the output of a child
\* that has exited, which ends the loop; it blocks otherwise
ReaderReadline ==
  /\ reader_pc = "readline"
  /\ \/ /\ stdout_pipe # <<>>
        /\ stdout_pipe' = Tail(stdout_pipe)
        /\ output_queue' = Append(output_queue, QueueLine(Head(stdout_pipe)))
        /\ reader_pc' = "poll"
     \/ /\ stdout_pipe = <<>>
        /\ child_returncode # NoneV
        /\ reader_pc' = "finally"
        /\ UNCHANGED <<stdout_pipe, output_queue>>
  /\ UNCHANGED <<child_returncode, written, loop_pc, classified, terminal>>
  /\ UNCHANGED <<engineVars, timeVars, panelVars, coreVars, cancelVars>>

\* lines 518-519, read_output: break if the child has exited
ReaderPoll ==
  /\ reader_pc = "poll"
  /\ reader_pc' = IF child_returncode # NoneV THEN "finally" ELSE "readline"
  /\ UNCHANGED <<child_returncode, stdout_pipe, written, output_queue,
                 loop_pc, classified, terminal>>
  /\ UNCHANGED <<engineVars, timeVars, panelVars, coreVars, cancelVars>>

\* lines 522-523, read_output: the end signal
ReaderFinally ==
  /\ reader_pc = "finally"
  /\ output_queue' = Append(output_queue, QueueEnd)
  /\ reader_pc' = "done"
  /\ UNCHANGED <<child_returncode, stdout_pipe, written, loop_pc,
                 classified, terminal>>
  /\ UNCHANGED <<engineVars, timeVars, panelVars, coreVars, cancelVars>>

\* lines 531-533: the loop goes on while the child runs and
\* is_downloading is set
LoopContinues_IgnoresFlag == child_returncode = NoneV

LoopContinues == child_returncode = NoneV /\ out_is_downloading

LoopWhile ==
  /\ loop_pc = "while"
  /\ loop_pc' = IF LoopContinues THEN "get" ELSE "after"
  /\ UNCHANGED <<child_returncode, stdout_pipe, written, output_queue,
                 reader_pc, classified, terminal>>
  /\ UNCHANGED <<engineVars, timeVars, panelVars, coreVars, cancelVars>>

\* lines 538-542: the stripped line is passed to _process_download_line
\* if it is not empty
Classify(lines, line) ==
  IF Strip(line) # <<>> THEN Append(lines, Strip(line)) ELSE lines

\* lines 535-544: output_queue.get(timeout=0.1) takes the first item, or
\* raises queue.Empty; None ends the loop, a line is classified
LoopGet ==
  /\ loop_pc = "get"
  /\ IF output_queue = <<>>
     THEN /\ loop_pc' = "while"
          /\ UNCHANGED <<output_queue, classified>>
     ELSE /\ output_queue' = Tail(output_queue)
          /\ IF Head(output_queue) = QueueEnd
             THEN /\ loop_pc' = "after"
                  /\ UNCHANGED classified
             ELSE /\ loop_pc' = "while"
                  /\ classified' = Classify(classified, Head(output_queue).line)
  /\ UNCHANGED <<child_returncode, stdout_pipe, written, reader_pc, terminal>>
  /\ UNCHANGED <<engineVars, timeVars, panelVars, coreVars, cancelVars>>

\* lines 546-548: return if the download was cancelled
LoopCheck ==
  /\ loop_pc = "after"
  /\ loop_pc' = IF ~out_is_downloading THEN "cleanup" ELSE "wait"
  /\ UNCHANGED <<child_returncode, stdout_pipe, written, output_queue,
                 reader_pc, classified, terminal>>
  /\ UNCHANGED <<engineVars, timeVars, panelVars, coreVars, cancelVars>>

\* lines 550-557: wait() returns once the child has exited, then
\* on_success or on_error is invoked
LoopReport ==
  /\ loop_pc = "wait"
  /\ child_returncode # NoneV
  /\ terminal' = IF child_returncode = IntV(0) THEN "on_success" ELSE "on_error"
  /\ loop_pc' = "cleanup"
  /\ UNCHANGED <<child_returncode, stdout_pipe, written, output_queue,
                 reader_pc, classified>>
  /\ UNCHANGED <<engineVars, timeVars, panelVars, coreVars, cancelVars>>

\* lines 228-236, the cleanup block of the worker: terminate() on a child
\* that still runs, then a wait bounded by CANCELLATION_TIMEOUT
LoopCleanup ==
  /\ loop_pc = "cleanup"
  /\ child_signal' = IF child_returncode = NoneV THEN Terminate(child_signal)
                     ELSE child_signal
  /\ loop_pc' = "done"
  /\ UNCHANGED <<child_returncode, stdout_pipe, written, output_queue,
                 reader_pc, classified, terminal>>
  /\ UNCHANGED <<out_is_downloading, out_tpc, cancel_mark>>
  /\ UNCHANGED <<engineVars, timeVars, panelVars, coreVars>>

\* cancel_download (lines 120-153): nothing if the flag is clear;
\* otherwise the flag is cleared and the terminate_process thread started
CancelOutput ==
  /\ IF ~out_is_downloading
     THEN UNCHANGED <<out_is_downloading, out_tpc, cancel_mark>>
     ELSE /\ out_is_downloading' = FALSE
          /\ out_tpc' = "check"
          /\ cancel_mark' = Len(classified)
  /\ UNCHANGED <<child_returncode, stdout_pipe, written, output_queue,
                 reader_pc, loop_pc, classified, terminal, child_signal>>
  /\ UNCHANGED <<engineVars, timeVars, panelVars, coreVars>>

\* lines 132-139, terminate_process: terminate() if the child has been
\* created and runs, then the grace loop, which changes nothing
TerminateOutputCheck ==
  /\ out_tpc = "check"
  /\ IF loop_pc # "none" /\ child_returncode = NoneV
     THEN /\ child_signal' = Terminate(child_signal)
          /\ out_tpc' = "final"
     ELSE /\ out_tpc' = "done"
          /\ UNCHANGED child_signal
  /\ UNCHANGED <<child_returncode, stdout_pipe, written, output_queue,
                 reader_pc, loop_pc, classified, terminal>>
  /\ UNCHANGED <<out_is_downloading, cancel_mark>>
  /\ UNCHANGED <<engineVars, timeVars, panelVars, coreVars>>

\* lines 142-143, terminate_process: kill() if the child still runs
TerminateOutputFinal ==
  /\ out_tpc = "final"
  /\ child_signal' = IF child_returncode = NoneV THEN "killed" ELSE child_signal
  /\ out_tpc' = "done"
  /\ UNCHANGED <<child_returncode, stdout_pipe, written, output_queue,
                 reader_pc, loop_pc, classified, terminal>>
  /\ UNCHANGED <<out_is_downloading, cancel_mark>>
  /\ UNCHANGED <<engineVars, timeVars, panelVars, coreVars>>

OutputNext ==
  \/ StartReader
  \/ \E line \in OutputLines : ChildWrite(line)
  \/ \E code \in ExitCodes : ChildEnd(code)
  \/ ReaderReadline
  \/ ReaderPoll
  \/ ReaderFinally
  \/ LoopWhile
  \/ LoopGet
  \/ LoopCheck
  \/ LoopReport
  \/ LoopCleanup

OutputStart == EngineInit /\ TimeIdle /\ PanelInit /\ OutputIdle /\ CoreIdle

OutputSpec == OutputStart /\ [][OutputNext]_vars

\* the same download with cancel_download called at any time
CancelOutputNext ==
  \/ OutputNext
  \/ CancelOutput
  \/ TerminateOutputCheck
  \/ TerminateOutputFinal

\* the worker thread and the terminate_process thread keep running, and a
\* child on which terminate() or kill() was called exits; nothing is
\* assumed about when the child writes or about the reader thread
CancelOutputFairness ==
  /\ WF_vars(StartReader)
  /\ WF_vars(LoopWhile)
  /\ WF_vars(LoopGet)
  /\ WF_vars(LoopCheck)
  /\ WF_vars(LoopReport)
  /\ WF_vars(LoopCleanup)
  /\ WF_vars(TerminateOutputCheck)
  /\ WF_vars(TerminateOutputFinal)
  /\ WF_vars(child_signal # "none" /\ \E code \in ExitCodes : ChildEnd(code))

CancelOutputSpec ==
  OutputStart /\ [][CancelOutputNext]_vars /\ CancelOutputFairness

\* ------------------------------------------------------------------
\* Properties
\* ------------------------------------------------------------------

\* every thread the engine created has run to its end
AllThreadsDone ==
  \A d \in Downloads :
    /\ wpc[d] \in {"none", "done"}
    /\ tpc[d] \in {"none", "done"}

\* C1: for a download that was never cancelled, whose child process has
\* exited and whose worker has finished, the engine has invoked exactly one
\* terminal callback: on_success if the exit code of its child is 0,
\* otherwise on_error with the message carrying that exit code.
C1_OneTerminalCallback ==
  \A d \in Downloads :
    (~Cancelled(d) /\ pstate[d] = "exited" /\ wpc[d] = "done") =>
      IF returncode[d] = IntV(0)
      THEN cbs[d] = <<OnSuccess>>
      ELSE cbs[d] = <<OnError(ErrReturnCode, returncode[d])>>

\* the latest download has ended on its own: its worker delivered a
\* terminal callback and finished, and cancel_download was never called
EndedOnOwn ==
  /\ download_thread # 0
  /\ ~Cancelled(download_thread)
  /\ wpc[download_thread] = "done"
  /\ cbs[download_thread] # <<>>

\* C2: a start_download call with valid settings and available
\* dependencies, made after the latest download has ended on its own,
\* returns True.
C2_RestartAfterEnd ==
  [][(/\ EndedOnOwn
      /\ lastCall' # lastCall
      /\ lastCall'.op = "start"
      /\ lastCall'.deps
      /\ lastCall'.interval = NoError) => lastCall'.ret = "True"]_vars

\* C3: when cancel_download was called for the latest download, no download
\* was started after it, and every thread of the engine has finished, the
\* child process of that download is not left running: it was never
\* spawned, has exited, or has been sent terminate() or kill().
C3_CancelledChildStopped ==
  \A d \in Downloads :
    (Cancelled(d) /\ download_thread = d /\ ~is_downloading /\ AllThreadsDone)
      => pstate[d] # "running"

\* C4: kill() is issued only by a cancelling thread that has gone through
\* the whole grace period of 10 polls, and only on a process on which
\* terminate() has been issued before.
C4_KillOnlyAfterTerminate ==
  [][\A p \in Downloads :
       (pstate[p] # "killed" /\ pstate'[p] = "killed") =>
         /\ pstate[p] = "terminated"
         /\ \E c \in Downloads :
              tpc[c] = "final" /\ tpc'[c] = "done" /\ tpolls[c] = GracePolls]_vars

\* C5: once cancel_download has been called for a download, no further
\* on_success or on_error is invoked for that download.
C5_NoCallbackAfterCancel ==
  [][\A d \in Downloads : Cancelled(d) => cbs'[d] = cbs[d]]_vars

\* C6: start_download called while the engine is downloading returns
\* False, invokes no callback, and changes none of is_downloading,
\* download_process, download_thread, the threads and the processes.
C6_BusyStartRejected ==
  (lastCall.op = "start" /\ lastCall.busy) =>
    /\ lastCall.ret = "False"
    /\ lastCall.err = NoError
    /\ ~lastCall.changed

C6_Witness ==
  /\ lastCall.op = "start"
  /\ lastCall.busy
  /\ lastCall.ret = "False"
  /\ download_process # 0
  /\ pstate[download_process] = "running"

\* the messages validate_time_interval gives for an invalid interval
IntervalErrors == {ErrStartFormat, ErrEndFormat, ErrEndBeforeStart}

\* what C7 requires of a start_download call with an invalid interval
InvalidIntervalRejected ==
  /\ lastCall.ret = "False"
  /\ lastCall.err = lastCall.interval
  /\ ~lastCall.changed
  /\ ~is_downloading

C8_MissingDependencyRejected ==
  (lastCall.op = "start" /\ ~lastCall.busy /\ ~lastCall.deps) =>
    /\ lastCall.ret = "False"
    /\ lastCall.err = ErrDeps
    /\ ~lastCall.changed
    /\ ~is_downloading

C8_Witness ==
  /\ lastCall.op = "start"
  /\ ~lastCall.busy
  /\ ~lastCall.deps
  /\ lastCall.err = ErrDeps
  /\ lastCall.ret = "False"

\* C9: after any sequence of progress events, clicks, timers and terminal
\* callbacks, the value of the progress bar lies in [0,100].
C9_ProgressClamped == progress_value >= 0 /\ progress_value <= 100

C9_Witness ==
  /\ raw_percent # NoneV
  /\ raw_percent.val > 100
  /\ progress_value = 100
  /\ panel_is_downloading

\* the fields of a string between its colons
RECURSIVE SplitColon(_)
SplitColon(s) ==
  IF s = <<>>
  THEN << <<>> >>
  ELSE LET r == SplitColon(Tail(s)) IN
       IF Head(s) = ":"
       THEN << <<>> >> \o r
       ELSE << <<Head(s)>> \o r[1] >> \o Tail(r)

\* every field is a nonempty run of digits
DigitFields(f) ==
  \A i \in 1..Len(f) :
    /\ f[i] # <<>>
    /\ \A k \in 1..Len(f[i]) : f[i][k] \in Digits

\* the time string has three fields and a minutes or seconds field of 60
\* or more
OutOfRangeHMS(t) ==
  LET f == SplitColon(Strip(t)) IN
  /\ Len(f) = 3
  /\ DigitFields(f)
  /\ (IntOf(f[2]) >= 60 \/ IntOf(f[3]) >= 60)

\* the time string has two fields and a seconds field of 60 or more
OutOfRangeSecondsMS(t) ==
  LET f == SplitColon(Strip(t)) IN
  /\ Len(f) = 2
  /\ DigitFields(f)
  /\ IntOf(f[2]) >= 60

\* the time string has two fields and a minutes field of 60 or more
OutOfRangeMinutesMS(t) ==
  LET f == SplitColon(Strip(t)) IN
  /\ Len(f) = 2
  /\ DigitFields(f)
  /\ IntOf(f[1]) >= 60

\* C10: validate_time_format returns False for every time string whose
\* seconds field is 60 or more, in the HH:MM:SS form and in the MM:SS form,
\* and for every time string in the HH:MM:SS form whose minutes field is 60
\* or more.
C10_OutOfRangeRejected ==
  (time_out # Pending /\ (OutOfRangeHMS(time_in) \/ OutOfRangeSecondsMS(time_in)))
    => time_out = FalseV

C10_Witness ==
  /\ time_out = FalseV
  /\ OutOfRangeHMS(time_in)
  /\ IntOf(SplitColon(Strip(time_in))[2]) >= 60
  /\ IntOf(SplitColon(Strip(time_in))[3]) < 60

\* C10 as stated: also a minutes field of 60 or more in the MM:SS form
\* makes validate_time_format return False
C10_AsStated ==
  (time_out # Pending /\
     (OutOfRangeHMS(time_in) \/ OutOfRangeSecondsMS(time_in)
        \/ OutOfRangeMinutesMS(time_in)))
    => time_out = FalseV

\* the string without its leading and trailing blanks
Trimmed(s) ==
  IF \A i \in 1..Len(s) : s[i] = " "
  THEN <<>>
  ELSE LET first == CHOOSE i \in 1..Len(s) :
                      s[i] # " " /\ \A j \in 1..(i - 1) : s[j] = " "
           last == CHOOSE i \in 1..Len(s) :
                     s[i] # " " /\ \A j \in (i + 1)..Len(s) : s[j] = " "
       IN SubSeq(s, first, last)

\* what C11 says validate_time_format returns for the string t
ExpectedSeconds(t) ==
  LET u == Trimmed(t)
      f == SplitColon(u)
  IN
  IF u = <<>> \/ u = Placeholder THEN NoneV
  ELSE IF ~DigitFields(f) THEN FalseV
  ELSE IF /\ Len(f) = 3
          /\ Len(f[1]) \in {1, 2} /\ Len(f[2]) = 2 /\ Len(f[3]) = 2
          /\ IntOf(f[2]) < 60 /\ IntOf(f[3]) < 60
  THEN IntV(IntOf(f[1]) * 3600 + IntOf(f[2]) * 60 + IntOf(f[3]))
  ELSE IF /\ Len(f) = 2
          /\ Len(f[1]) \in {1, 2} /\ Len(f[2]) = 2
          /\ IntOf(f[2]) < 60
  THEN IntV(IntOf(f[1]) * 60 + IntOf(f[2]))
  ELSE IF Len(f) = 1
  THEN IntV(IntOf(f[1]))
  ELSE FalseV

\* C11: validate_time_format returns hours*3600 + minutes*60 + seconds for
\* an H:MM:SS or HH:MM:SS string with minutes and seconds below 60,
\* minutes*60 + seconds for an M:SS or MM:SS string with seconds below 60,
\* the integer itself for a digits-only string, None for an empty, blank or
\* placeholder input, and False for every other string, surrounding blanks
\* being ignored.
C11_ParsedSeconds ==
  time_out # Pending => time_out = ExpectedSeconds(time_in)

C11_Witness ==
  /\ time_out # Pending
  /\ time_in[1] = " "
  /\ Len(SplitColon(Trimmed(time_in))) = 3
  /\ time_out = IntV(5 * 3600 + 6 * 60 + 5)

\* the string is two digits, a colon, two digits, a colon, two digits, with
\* the minutes and the seconds below 60
IsHHMMSS(t) ==
  /\ Len(t) = 8
  /\ t[3] = ":" /\ t[6] = ":"
  /\ \A i \in {1, 2, 4, 5, 7, 8} : t[i] \in Digits
  /\ IntOf(SubSeq(t, 4, 5)) < 60
  /\ IntOf(SubSeq(t, 7, 8)) < 60

\* formatting gave an HH:MM:SS string that parses to the same number
RoundTrips == IsHHMMSS(time_fmt) /\ time_back = time_out

ValidTime(t) == validate_time_format(t).tag = "int"

\* C13: validate_time_interval rejects, with 'End time must be after start
\* time' and None for both seconds values, every pair of valid start and
\* end times whose end is not strictly after the start; and whenever it
\* returns no error with both a start and an end in effect, end_seconds is
\* greater than start_seconds.
C13_EndAfterStart ==
  iv_out # Pending =>
    /\ (/\ ValidTime(iv_start)
        /\ ValidTime(iv_end)
        /\ validate_time_format(iv_end).val
             <= validate_time_format(iv_start).val)
         => iv_out = IntervalResult(NoneV, NoneV, ErrEndBeforeStart)
    /\ (/\ ~iv_out.raised
        /\ iv_out.error = NoError
        /\ iv_out.start # NoneV
        /\ iv_out.end # NoneV)
         => iv_out.end.val > iv_out.start.val

\* some URLs, to compare what two pattern lists accept
ProbeUrls ==
  { StrUrl(<<"https://", "www.", "youtube.com", "/watch?v=", "dQw4w9WgXcQ">>),
    StrUrl(<<"music.youtube.com", "/watch?v=", "a-b_1">>),
    StrUrl(<<"youtu.be", "/", "a-b_1">>) }

\* C14: the module's default pattern list stays as config.py defines it,
\* and a default-constructed validator on which neither add_pattern nor
\* remove_pattern was called accepts the URLs the default list accepts,
\* whatever was called on other validators.
C14_DefaultPatternsFixed ==
  /\ pattern_lists[0] = YOUTUBE_PATTERNS
  /\ \A v \in Validators :
       (validator_list[v] = 0 /\ v \notin patched) =>
         \A u \in ProbeUrls :
           is_valid_youtube_url(PatternsOf(v), u)
             = is_valid_youtube_url(YOUTUBE_PATTERNS, u)

\* the pieces of a string without the blanks at its ends
TrimmedUrl(u) ==
  IF \A i \in 1..Len(u) : u[i] = " "
  THEN <<>>
  ELSE LET first == CHOOSE i \in 1..Len(u) :
                      u[i] # " " /\ \A j \in 1..(i - 1) : u[j] = " "
           last == CHOOSE i \in 1..Len(u) :
                     u[i] # " " /\ \A j \in (i + 1)..Len(u) : u[j] = " "
       IN SubSeq(u, first, last)

\* the trimmed input matches one of the patterns of the validator
MatchesAPattern ==
  /\ url_in.tag = "str"
  /\ \E k \in 1..Len(url_patterns) :
       MatchUrl(url_patterns[k], TrimmedUrl(url_in.str))

C16_DefaultPresetsStatic ==
  \A m \in Managers :
    (managers[m].constructed /\ managers[m].fresh) =>
      \A f \in FormatTypes, q \in Qualities :
        get_preset(m, f, q) = PRESETS[f][q]

\* the first attempt of download d failed: Popen could not run the child,
\* or the child exited with a non-zero code that the worker reported
FirstAttemptFailed(d) ==
  /\ cbs[d] # <<>>
  /\ cbs[d][1].kind = "on_error"

\* C17: when the worker of a download that was not cancelled has finished,
\* then if the first attempt failed and the format is webm, the worker has
\* reported 'Retrying with MP4 format...' and built a second command with
\* format mp4; for every other format, and after a successful first
\* attempt, it has built one command only.
C17_WebmFallback ==
  \A d \in Downloads :
    (wpc[d] = "done" /\ ~Cancelled(d)) =>
      IF FirstAttemptFailed(d) /\ settings_format[d] = "webm"
      THEN /\ commands[d] = <<"webm", "mp4">>
           /\ \E k \in 1..Len(statuses[d]) : statuses[d][k] = RetryStatus
      ELSE Len(commands[d]) = 1


\* terminate() or kill() has been called on the child of download d, which
\* still runs
Stopping(d) == pstate[d] \in {"terminated", "killed"}

\* the child of download d is being stopped although cancel_download was
\* never called for d and the cleanup block of d's own worker has not run:
\* the termination thread or the cleanup block of an earlier download did it
StoppedByEarlier(d) ==
  /\ Stopping(d)
  /\ ~Cancelled(d)
  /\ wpc[d] # "done"

\* C18: a cancellation stops only the download it was issued for: the child
\* of a download started after a cancel_download is never terminated or
\* killed by the earlier termination thread or the earlier worker's cleanup
\* block, and the earlier worker never waits on the new child.
C18_CancelStopsOnlyItsDownload ==
  \A d \in Downloads :
    /\ ~StoppedByEarlier(d)
    /\ waitOn[d] \in {0, d}


\* the worker threads that are executing, and the children that run
ExecutingWorkers == {d \in Downloads : wpc[d] \notin {"none", "done"}}

RunningChildren == {d \in Downloads : Running(d)}

\* C19: after any sequence of start_download and cancel_download calls, at
\* most one worker thread is executing and at most one yt-dlp child process
\* is running.
C19_SingleWorker ==
  /\ Cardinality(ExecutingWorkers) <= 1
  /\ Cardinality(RunningChildren) <= 1


\* the non-empty lines of a sequence of lines written, as they are
\* classified
RECURSIVE ClassifiedOf(_)
ClassifiedOf(lines) ==
  IF lines = <<>> THEN <<>>
  ELSE Classify(ClassifiedOf(SubSeq(lines, 1, Len(lines) - 1)),
                lines[Len(lines)])

\* C20: in a download that is not cancelled, when on_success or on_error
\* has been invoked, every non-empty line the child wrote before exiting
\* has been passed to _process_download_line, in the order written.
C20_NoLineDropped ==
  terminal # "none" => classified = ClassifiedOf(written)


\* C21: once cancel_download has cleared the flag, the worker classifies at
\* most one further output line, and, whatever the child writes or does
\* not write from then on, it leaves its read loop and the worker thread
\* comes to its end.
C21_CancelObserved ==
  /\ [](cancel_mark >= 0 => Len(classified) <= cancel_mark + 1)
  /\ (~out_is_downloading ~> loop_pc = "done")

\* the worker classified one more line after the cancel and has ended
C21_Witness ==
  /\ cancel_mark >= 0
  /\ Len(classified) = cancel_mark + 1
  /\ loop_pc = "done"


\* C22: when the last start_download rejected the request with a message
\* (an invalid time interval or a missing dependency), a box with that
\* message has been shown to the user.
C22_RejectionMessageShown ==
  (lastCall.op = "start" /\ lastCall.ret = "False" /\ lastCall.err # NoError)
    => Box("error", lastCall.err) \in messagebox


\* the categories of an output line, in their order of precedence
LineCategory(line) ==
  IF Has(line, "[download]") THEN "download"
  ELSE IF line[1] = Word("frame=") \/ Has(line, "ffmpeg") \/ Has(line, "FFmpeg")
  THEN "ffmpeg"
  ELSE IF Has(line, "Merging") \/ Has(line, "merger") \/ Has(line, "Merger")
  THEN "merge"
  ELSE IF Has(line, "ERROR:") \/ Has(line, "error:") THEN "error"
  ELSE "other"

\* the status texts of each category (NoError: no status)
CategoryStatuses(category) ==
  IF category = "download"
  THEN {NoError, "Preparing file...", "Resuming download..."}
  ELSE IF category = "ffmpeg" THEN {"Trimming video...", "Processing video..."}
  ELSE IF category = "merge" THEN {"Merging audio and video..."}
  ELSE IF category = "error" THEN {NoError, "Format conversion error detected..."}
  ELSE {NoError}

\* the percentages a line carries
CarriedPercents(line) ==
  {line[i].n : i \in {k \in 1..Len(line) : line[k].w = "%"}}

\* C23: a line is classified into the first category that applies
\* ('[download]', then ffmpeg or 'frame=', then merge, then error) and
\* yields at most one progress event: a percentage the line carries for a
\* '[download]' line with 'N%', 90 for an ffmpeg line, 95 for a merge line,
\* none for any other line.
C23_LineClassified ==
  line_out # Pending =>
    LET category == LineCategory(line_in) IN
    /\ line_out.status \in CategoryStatuses(category)
    /\ IF category = "download" /\ CarriedPercents(line_in) # {}
       THEN /\ line_out.progress # NoneV
            /\ line_out.progress.val \in CarriedPercents(line_in)
       ELSE IF category = "ffmpeg" THEN line_out.progress = IntV(90)
       ELSE IF category = "merge" THEN line_out.progress = IntV(95)
       ELSE line_out.progress = NoneV

\* a '[download]' line with a percentage that also names ffmpeg has been
\* classified as a download line
C23_Witness ==
  /\ line_out # Pending
  /\ Has(line_in, "[download]")
  /\ Len(line_in) > 1
  /\ \E i \in 1..Len(line_in) : line_in[i].w \in {"ffmpeg", "Merging"}
  /\ line_out.progress = NoneV


\* C26: sanitize_filename returns, for every name, a name that is not
\* empty, has at most 200 characters, contains none of < > : " / \ | ? *
\* and neither starts nor ends with whitespace; a name that sanitizes to
\* nothing gives 'video'.
C26_SafeFilename ==
  name_out.done =>
    LET name == name_out.name IN
    /\ NameLen(name) >= 1
    /\ NameLen(name) <= 200
    /\ \A i \in 1..Len(name) :
         name[i].c \notin {"<", ">", ":", "\"", "/", "\\", "|", "?", "*"}
    /\ name[1].c \notin NameSpaces
    /\ name[Len(name)].c \notin NameSpaces
    /\ (\A i \in 1..Len(name_in) : name_in[i].c \in {"<", " "}) =>
         name = VideoName

\* a name of more than 200 characters was cut at a space
C26_Witness ==
  /\ name_out.done
  /\ NameLen(name_in) > 200
  /\ NameLen(name_out.name) = 199
  /\ \E i \in 1..Len(name_in) : name_in[i].c = "<"


\* the number of elements of a command equal to arg, and the element that
\* follows the first of them
CountArg(command, arg) ==
  Cardinality({i \in 1..Len(command) : command[i] = arg})

ValueOf(command, arg) ==
  LET i == CHOOSE k \in 1..Len(command) :
             /\ command[k] = arg
             /\ \A j \in 1..(k - 1) : command[j] # arg
  IN IF i < Len(command) THEN command[i + 1] ELSE <<>>

\* t is the HH:MM:SS text of the number of seconds sec
TimeText(t, sec) ==
  /\ IsHHMMSS(t)
  /\ validate_time_format(t) = sec

\* the argument of --download-sections for the seconds given
SectionArgument(arg, start_seconds, end_seconds) ==
  IF start_seconds # NoneV /\ end_seconds # NoneV
  THEN /\ Len(arg) = 18
       /\ arg[1] = "*"
       /\ TimeText(SubSeq(arg, 2, 9), start_seconds)
       /\ arg[10] = "-"
       /\ TimeText(SubSeq(arg, 11, 18), end_seconds)
  ELSE IF start_seconds # NoneV
  THEN /\ Len(arg) = 13
       /\ arg[1] = "*"
       /\ TimeText(SubSeq(arg, 2, 9), start_seconds)
       /\ SubSeq(arg, 10, 13) = <<"-", "i", "n", "f">>
  ELSE /\ Len(arg) = 11
       /\ SubSeq(arg, 1, 3) = <<"*", "0", "-">>
       /\ TimeText(SubSeq(arg, 4, 11), end_seconds)

\* a time that is not set, or a number of seconds below 100 hours
BelowHundredHours(seconds) == seconds = NoneV \/ seconds.val < 360000

\* the command has --download-sections once, with the argument of the
\* seconds given where these are within the limit, if a time is set, and
\* has none otherwise
SectionsOption(limited) ==
  LET st == build_in.start_seconds
      en == build_in.end_seconds
      n == CountArg(build_out, Arg("--download-sections"))
  IN IF st = NoneV /\ en = NoneV THEN n = 0
     ELSE /\ n = 1
          /\ (limited => BelowHundredHours(st) /\ BelowHundredHours(en)) =>
               SectionArgument(ValueOf(build_out, Arg("--download-sections")),
                               st, en)

HasPair(command, option, value) ==
  \E i \in 1..(Len(command) - 1) :
    command[i] = Arg(option) /\ command[i + 1] = Arg(value)

\* a start or an end time is in effect for the command built
TimeSectioned == build_in.start_seconds # NoneV \/ build_in.end_seconds # NoneV

\* C25: every time-sectioned video download forces MP4 output with
\* --merge-output-format mp4 and --remux-video mp4, whatever container
\* is selected; every audio download, time-sectioned or not, has
\* --extract-audio, --audio-format with the selected format and no
\* --merge-output-format; every command has at most one -f option.
C25_FormatOptions ==
  build_out # <<>> =>
    LET settings == build_in.settings IN
    /\ (TimeSectioned /\ settings.format \in {"mp4", "webm"}) =>
         /\ HasPair(build_out, "--merge-output-format", "mp4")
         /\ CountArg(build_out, Arg("--merge-output-format")) = 1
         /\ HasPair(build_out, "--remux-video", "mp4")
    /\ settings.format \in {"mp3", "m4a"} =>
         /\ CountArg(build_out, Arg("--extract-audio")) >= 1
         /\ HasPair(build_out, "--audio-format", settings.format)
         /\ CountArg(build_out, Arg("--audio-format")) = 1
         /\ CountArg(build_out, Arg("--merge-output-format")) = 0
    /\ CountArg(build_out, Arg("-f")) <= 1

\* a time-sectioned webm download was built, and it has one -f option
C25_Witness ==
  /\ build_out # <<>>
  /\ build_in.settings.format = "webm"
  /\ build_in.start_seconds # NoneV
  /\ HasPair(build_out, "--remux-video", "mp4")
  /\ CountArg(build_out, Arg("-f")) = 1

====
